---- MODULE Spec2Model ----
(***************************************************************************)
(* Verification model of the decision / allocation core of the XRP hedge   *)
(* bot: MultiPairManager (multi_pair.py), FundingStrategy                  *)
(* (funding_strategy.py), HedgeStrategy (hedge_strategy.py) and the        *)
(* trading loops that drive them (bot.py, bot_legacy.py, bot_enhanced.py,  *)
(* backtesting.py).                                                        *)
(*                                                                         *)
(* Python floats are modelled by exact rationals <<n, d>> (d > 0, lowest   *)
(* terms).                                                                 *)
(***************************************************************************)
EXTENDS Integers, Sequences, FiniteSets, TLC

(***************************************************************************)
(* Bounds of the model.                                                    *)
(***************************************************************************)
\* number of configured trading pairs, Config.TRADING_PAIRS
NumPairs == 3
\* record_trade_result calls explored
MaxTrades == 1
\* boost_allocation_for_signal executions explored per allocation cycle
MaxBoosts == 2
\* largest recent_losses value explored
MaxLosses == 6
\* candles run_backtest iterates over after the 30 it needs for its indicators
MaxCandles == 5
\* record_trade_result calls explored per pair on top of a recorded history
MaxHistory == 2
\* trades counted in winning_trades and losing_trades together
MaxCounted == 3

(***************************************************************************)
(* Exact rational arithmetic.                                              *)
(***************************************************************************)
Abs(x) == IF x < 0 THEN -x ELSE x

RECURSIVE GCD(_, _)
GCD(a, b) == IF b = 0 THEN a ELSE GCD(b, a % b)

LCM(a, b) == (a \div GCD(a, b)) * b

Norm(n, d) ==
    LET g == GCD(Abs(n), d)
    IN  IF n = 0 THEN <<0, 1>> ELSE <<n \div g, d \div g>>

Rat(n) == <<n, 1>>
Zero == Rat(0)
RAdd(a, b) ==
    LET l == LCM(a[2], b[2])
    IN  Norm(a[1] * (l \div a[2]) + b[1] * (l \div b[2]), l)
RNeg(a) == <<-a[1], a[2]>>
RSub(a, b) == RAdd(a, RNeg(b))
RMul(a, b) ==
    LET g1 == GCD(Abs(a[1]), b[2])
        g2 == GCD(Abs(b[1]), a[2])
        h1 == IF g1 = 0 THEN 1 ELSE g1
        h2 == IF g2 = 0 THEN 1 ELSE g2
    IN  Norm((a[1] \div h1) * (b[1] \div h2), (a[2] \div h2) * (b[2] \div h1))
\* a / b for b > 0
RDiv(a, b) == RMul(a, <<b[2], b[1]>>)
RLt(a, b) ==
    LET l == LCM(a[2], b[2])
    IN  a[1] * (l \div a[2]) < b[1] * (l \div b[2])
RLeq(a, b) == ~RLt(b, a)
RGt(a, b) == RLt(b, a)
RGeq(a, b) == ~RLt(a, b)
\* Python max(a, b) / min(a, b): the first argument wins a tie
RMax(a, b) == IF RGt(b, a) THEN b ELSE a
RMin(a, b) == IF RLt(b, a) THEN b ELSE a

(***************************************************************************)
(* State.                                                                  *)
(***************************************************************************)
VARIABLES
    \* MultiPairManager (multi_pair.py)
    pair_states,        \* self.pair_states: per-pair trade counters
    pair_balances,      \* self.pair_balances: the allocation table, a dict in
                        \* insertion order: a sequence of [k |-> symbol, v |-> amount]
    mp_call,            \* the last MultiPairManager call: its arguments, the table
                        \* before it and its return value
    mp_boosts,          \* boost_allocation_for_signal executions since the last allocation
    mp_total,           \* the total_balance of the last allocate_balance call
    mp_strategy         \* the allocation_strategy of the last allocate_balance call

mpVars == <<pair_states, pair_balances, mp_call, mp_boosts, mp_total, mp_strategy>>

VARIABLES
    \* FundingStrategy (funding_strategy.py), a stateless calculator
    fs_call             \* the last FundingStrategy call: its arguments and its result

fsVars == <<fs_call>>

VARIABLES
    \* HedgeStrategy (hedge_strategy.py)
    highest_price_long, \* self.highest_price_long, the high-water mark
    lowest_price_short, \* self.lowest_price_short, the low-water mark
    hs_call,            \* the last HedgeStrategy call: its arguments, the water marks
                        \* before it and its return value
    seen_high_long,     \* history kept for direct calls (SpecHedge): the highest
                        \* current_price an open long was evaluated at since the
                        \* last reset_tracking
    hs_suggestion       \* the last direct suggest_action call: its arguments and
                        \* the dict it returned

hsVars == <<highest_price_long, lowest_price_short, hs_call, seen_high_long, hs_suggestion>>

VARIABLES
    \* XRPHedgeBot (bot.py) and the exchange account it trades on
    recent_losses,      \* self.recent_losses
    exchange_position,  \* per symbol, the position client.get_position returns
    bot_pc,             \* run_cycle's place: 0 between cycles, else the index in
                        \* trading_symbols of the pair processed next
    bot_balance,        \* run_cycle's local balance, read once per cycle (0 between cycles)
    bot_event           \* what the last step of run_cycle did

botVars == <<recent_losses, exchange_position, bot_pc, bot_balance, bot_event>>

VARIABLES
    \* BacktestEngine.run_backtest (backtesting.py)
    bt_candle,          \* the loop's place: 0 outside run_backtest, else the number
                        \* of the candle processed next
    bt_balance,         \* the local balance
    bt_position,        \* the local current_position
    bt_event            \* what the last pass of the loop did

btVars == <<bt_candle, bt_balance, bt_position, bt_event>>

VARIABLES
    \* DynamicLeverage (dynamic_leverage.py)
    dl_config,          \* base_leverage, min_leverage, max_leverage as constructed
    current_leverage,   \* self.current_leverage
    dl_call             \* the last DynamicLeverage call, its return value and the
                        \* value adjust_leverage last returned since the
                        \* constructor or the last reset_to_base (0 for none)

dlVars == <<dl_config, current_leverage, dl_call>>

VARIABLES
    \* XRPHedgeBot (bot.py) with its optional modules
    pair_position,      \* per trading pair of the MultiPairManager, what the
                        \* account holds on it
    strategy_leverage   \* self.strategy.leverage

mcVars == <<pair_position, strategy_leverage>>

VARIABLES
    \* what a HedgeStrategy instance of each pair's own would hold and decide, had
    \* run_cycle given every pair one: computed beside the cycle, read by no action
    own_high,           \* per pair, its instance's highest_price_long
    own_low,            \* per pair, its instance's lowest_price_short
    own_action          \* the action that instance suggests in the pass just made

ownVars == <<own_high, own_low, own_action>>

VARIABLES
    \* XRPHedgeBot's trade statistics
    winning_trades,     \* self.winning_trades
    losing_trades       \* self.losing_trades

statVars == <<winning_trades, losing_trades>>

VARIABLES
    \* the threads of one bot process: the main thread, which runs run() and
    \* run_cycle(), and the daemon thread WebDashboard.run_async starts
    th_frame,           \* per thread, the locals of the call it is executing
                        \* (boost_allocation_for_signal, run), or NoFrame
    th_step,            \* the thread that ran last and what it ran
    running             \* XRPHedgeBot.running
thVars == <<th_frame, th_step, running>>

VARIABLES
    \* what one cycle of run_cycle has done so far, and execute_trade called directly
    evaluations,        \* per pair, the passes of the loop made on it in this cycle
    orders_attempted,   \* per pair, the client.place_order calls made for it in
                        \* this cycle
    et_call             \* the last direct execute_trade call: arguments and result
exVars == <<evaluations, orders_attempted, et_call>>

(***************************************************************************)
(* MultiPairManager, multi_pair.py                                         *)
(***************************************************************************)
None == "None"
\* self.trading_pairs, in list order
trading_pairs == [i \in 1..NumPairs |-> i]
Pairs == {trading_pairs[i] : i \in 1..NumPairs}
\* a symbol that is not one of the trading pairs
UnknownSymbol == 0
\* get_best_pair's None: no pair has history
NoPair == -1
Symbols == Pairs \cup {UnknownSymbol}

Strategies == {"equal", "weighted", "dynamic", "best", "other"}
\* total balances handed to allocate_balance
Balances == {0, 10, 300}
Strengths == {40, 60}

Tenth == <<1, 10>>
Fifth == <<1, 5>>

\* dict helpers (insertion-ordered)
Keys(table) == {table[i].k : i \in 1..Len(table)}
Index(table, key) == CHOOSE i \in 1..Len(table) : table[i].k = key
\* dict.get(key, default)
Get(table, key, default) ==
    IF key \in Keys(table) THEN table[Index(table, key)].v ELSE default
\* dict[key] = value: an existing key keeps its place, a new key is appended
Put(table, key, value) ==
    IF key \in Keys(table)
    THEN LET at == Index(table, key)
         IN  SubSeq(table, 1, at - 1) \o <<[k |-> key, v |-> value]>>
                 \o SubSeq(table, at + 1, Len(table))
    ELSE Append(table, [k |-> key, v |-> value])
RECURSIVE SumFrom(_, _)
SumFrom(table, i) ==
    IF i > Len(table) THEN Zero ELSE RAdd(table[i].v, SumFrom(table, i + 1))
\* sum(self.pair_balances.values())
SumValues(table) == SumFrom(table, 1)
\* a dict built by iterating self.trading_pairs
RECURSIVE TableFrom(_, _)
TableFrom(f, i) ==
    IF i > NumPairs THEN <<>>
    ELSE <<[k |-> trading_pairs[i], v |-> f[trading_pairs[i]]]>> \o TableFrom(f, i + 1)
TableOf(f) == TableFrom(f, 1)

\* __init__: the counters of one pair
InitPairState == [total_trades |-> 0, winning_trades |-> 0, losing_trades |-> 0]

\* record_trade_result: pnl > 0 is a win, anything else a loss
RecordTradeResult(states, symbol, pnl) ==
    IF symbol \notin Pairs THEN states
    ELSE IF pnl > 0
         THEN [states EXCEPT ![symbol].total_trades = @ + 1,
                             ![symbol].winning_trades = @ + 1]
         ELSE [states EXCEPT ![symbol].total_trades = @ + 1,
                             ![symbol].losing_trades = @ + 1]

Max2(a, b) == IF b > a THEN b ELSE a

CompositeScore_WinRateOnly(state) ==
    Norm(state.winning_trades, state.winning_trades + state.losing_trades)

\* get_best_pair: the composite score of a pair with history
CompositeScore(state) ==
    LET total == state.winning_trades + state.losing_trades
        win_rate == Norm(state.winning_trades, total)
        activity_score == RMin(Rat(1), Norm(state.total_trades, 20))
    IN  RAdd(RMul(win_rate, <<3, 5>>), RMul(activity_score, <<2, 5>>))

HasHistory(state) == state.winning_trades + state.losing_trades # 0

\* get_best_pair: the loop over self.trading_pairs keeps the first pair with the
\* strictly highest score and skips pairs without history
RECURSIVE BestPairLoop(_, _, _)
BestPairLoop(states, i, best_pair) ==
    IF i > NumPairs THEN best_pair
    ELSE LET pair == trading_pairs[i]
         IN  IF ~HasHistory(states[pair]) THEN BestPairLoop(states, i + 1, best_pair)
             ELSE IF best_pair = NoPair
                     \/ RGt(CompositeScore(states[pair]), CompositeScore(states[best_pair]))
                  THEN BestPairLoop(states, i + 1, pair)
                  ELSE BestPairLoop(states, i + 1, best_pair)

GetBestPair(states) == BestPairLoop(states, 1, NoPair)

EqualAllocation_Whole(total_balance) ==
    [p \in Pairs |-> total_balance]

\* balance_per_pair for every pair
EqualAllocation(total_balance) ==
    [p \in Pairs |-> RDiv(total_balance, Rat(NumPairs))]

\* allocate_to_best_pair, lines 412-428: 80% to the best pair, the 20% reserve
\* split among the others (the whole balance if there are no others)
BestPairSplit(total_balance, best_pair) ==
    LET reserve_amount == RMul(total_balance, Fifth)
        best_pair_amount == RSub(total_balance, reserve_amount)
        other_pairs == Pairs \ {best_pair}
    IN  IF other_pairs # {}
        THEN [p \in Pairs |-> IF p = best_pair THEN best_pair_amount
                              ELSE RDiv(reserve_amount, Rat(Cardinality(other_pairs)))]
        ELSE [p \in Pairs |-> total_balance]

\* allocate_to_best_pair, lines 429-433: the "fallback" statements sit inside the
\* `if best_pair:` block, after its inner if/else, and overwrite every entry
BestPairFallback(allocations, total_balance) ==
    [p \in Pairs |-> EqualAllocation(total_balance)[p]]

\* allocate_to_best_pair falling back to equal shares when no pair qualifies
AllocateToBestPair_EqualWhenNone(states, total_balance) ==
    LET best_pair == GetBestPair(states)
    IN  IF best_pair # NoPair
        THEN BestPairFallback(BestPairSplit(total_balance, best_pair), total_balance)
        ELSE EqualAllocation(total_balance)

\* allocate_to_best_pair: without a best pair the table keeps its initial 0.0
AllocateToBestPair(states, total_balance) ==
    LET best_pair == GetBestPair(states)
    IN  IF best_pair # NoPair
        THEN BestPairFallback(BestPairSplit(total_balance, best_pair), total_balance)
        ELSE [p \in Pairs |-> Zero]

RECURSIVE SumWins(_, _)
SumWins(states, i) ==
    IF i > NumPairs THEN 0
    ELSE states[trading_pairs[i]].winning_trades + SumWins(states, i + 1)

WeightedAllocation(states, total_balance) ==
    LET total_wins == SumWins(states, 1)
    IN  IF total_wins = 0 THEN EqualAllocation(total_balance)
        ELSE [p \in Pairs |->
                RMul(total_balance, Norm(states[p].winning_trades, total_wins))]

\* weights[pair] = max(0.1, win_rate)
DynamicWeight(state) ==
    LET total == state.winning_trades + state.losing_trades
        win_rate == Norm(state.winning_trades, Max2(1, total))
    IN  RMax(Tenth, win_rate)

RECURSIVE SumWeights(_, _)
SumWeights(states, i) ==
    IF i > NumPairs THEN Zero
    ELSE RAdd(DynamicWeight(states[trading_pairs[i]]), SumWeights(states, i + 1))

DynamicAllocation(states, total_balance) ==
    LET total_weight == SumWeights(states, 1)
    IN  [p \in Pairs |->
            RMul(total_balance, RDiv(DynamicWeight(states[p]), total_weight))]

\* allocate_balance: the new value of self.pair_balances
AllocateBalance(states, total_balance, allocation_strategy) ==
    TableOf(CASE allocation_strategy = "best" -> AllocateToBestPair(states, total_balance)
              [] allocation_strategy = "equal" -> EqualAllocation(total_balance)
              [] allocation_strategy = "weighted" -> WeightedAllocation(states, total_balance)
              [] allocation_strategy = "dynamic" -> DynamicAllocation(states, total_balance)
              [] OTHER -> EqualAllocation(total_balance))

\* the donors visited in table order, not sorted
SortDescending_TableOrder(items) == items

\* sorted(..., key=lambda x: x[1], reverse=True): descending and stable
RemoveAt(items, m) == SubSeq(items, 1, m - 1) \o SubSeq(items, m + 1, Len(items))
RECURSIVE SortDescending(_)
SortDescending(items) ==
    IF items = <<>> THEN <<>>
    ELSE LET m == CHOOSE i \in 1..Len(items) :
                    /\ \A j \in 1..Len(items) : RLeq(items[j].v, items[i].v)
                    /\ \A j \in 1..(i - 1) : RLt(items[j].v, items[i].v)
         IN  <<items[m]>> \o SortDescending(RemoveAt(items, m))

\* boost_allocation_for_signal, line 255: target_amount
TargetAmount(total_allocated) == RMul(total_allocated, Tenth)
\* line 277: min_balance_for_pair
MinBalanceForPair(total_allocated) == RMul(total_allocated, Tenth)
\* line 278: available_to_take
AvailableToTake(balance, total_allocated) ==
    RMax(Zero, RSub(balance, MinBalanceForPair(total_allocated)))
\* a donor cap of 50% instead of 20%
MaxToTake_Half(balance) == RMul(balance, <<1, 2>>)
\* line 279: max_to_take
MaxToTake(balance) == RMul(balance, Fifth)
\* line 281: to_take
ToTake(balance, total_allocated, remaining) ==
    RMin(RMin(AvailableToTake(balance, total_allocated), MaxToTake(balance)), remaining)

\* lines 271-286: the loop over the donors; returns the table and the amount moved
RECURSIVE BoostLoop(_, _, _, _, _, _)
BoostLoop(sorted_pairs, i, table, redistributed, needed_amount, total_allocated) ==
    IF i > Len(sorted_pairs) \/ RGeq(redistributed, needed_amount)
    THEN [table |-> table, redistributed |-> redistributed]
    ELSE LET pair == sorted_pairs[i].k
             balance == sorted_pairs[i].v
             to_take == ToTake(balance, total_allocated, RSub(needed_amount, redistributed))
         IN  IF RGt(to_take, Zero)
             THEN BoostLoop(sorted_pairs, i + 1,
                            Put(table, pair, RSub(Get(table, pair, Zero), to_take)),
                            RAdd(redistributed, to_take), needed_amount, total_allocated)
             ELSE BoostLoop(sorted_pairs, i + 1, table, redistributed,
                            needed_amount, total_allocated)

\* the recipient is credited the amount moved only, its own balance dropped
RecipientAmount_Overwrite(current_amount, redistributed) == redistributed
\* line 289: the amount written to the recipient's entry
RecipientAmount(current_amount, redistributed) == RAdd(current_amount, redistributed)

\* boost_allocation_for_signal: [table |-> new self.pair_balances, ret |-> result]
BoostAllocationForSignal(table, symbol) ==
    LET total_allocated == SumValues(table)
        target_amount == TargetAmount(total_allocated)
        current_amount == Get(table, symbol, Zero)
        needed_amount == RSub(target_amount, current_amount)
        sorted_pairs == SortDescending(SelectSeq(table, LAMBDA e : e.k # symbol))
        moved == BoostLoop(sorted_pairs, 1, table, Zero, needed_amount, total_allocated)
    IN  IF RLeq(total_allocated, Zero) THEN [table |-> table, ret |-> FALSE]
        ELSE IF RGeq(current_amount, target_amount) THEN [table |-> table, ret |-> TRUE]
        ELSE [table |-> Put(moved.table, symbol,
                            RecipientAmount(current_amount, moved.redistributed)),
              ret |-> RGt(moved.redistributed, Zero)]

\* should_trade_pair that trades on a strong signal whatever the boost returned
ShouldTradePair_IgnoreBoost(table, symbol, strength) ==
    LET boost == BoostAllocationForSignal(table, symbol)
    IN  IF symbol \notin Pairs \/ strength < 60
        THEN [table |-> table, ret |-> FALSE, boosted |-> FALSE]
        ELSE IF RLeq(Get(table, symbol, Zero), Rat(1))
             THEN [table |-> boost.table, ret |-> TRUE, boosted |-> TRUE]
             ELSE [table |-> table, ret |-> TRUE, boosted |-> FALSE]

\* should_trade_pair: [table, ret, boosted (whether the boost routine ran)]
ShouldTradePair(table, symbol, strength) ==
    LET current_balance == Get(table, symbol, Zero)
        boost == BoostAllocationForSignal(table, symbol)
    IN  IF symbol \notin Pairs THEN [table |-> table, ret |-> FALSE, boosted |-> FALSE]
        ELSE IF strength < 60 THEN [table |-> table, ret |-> FALSE, boosted |-> FALSE]
        ELSE IF RLeq(current_balance, Rat(1))
             THEN [table |-> boost.table,
                   ret |-> boost.ret /\ RGt(Get(boost.table, symbol, Zero), Rat(1)),
                   boosted |-> TRUE]
             ELSE [table |-> table, ret |-> TRUE, boosted |-> FALSE]

(***************************************************************************)
(* FundingStrategy, funding_strategy.py                                    *)
(***************************************************************************)
\* __init__ defaults, the values Config passes
min_balance_reserve_percent == 20
base_position_size_percent == 15
fs_max_position_size_percent == 40
min_position_size_percent == 5

Percent(n) == Norm(n, 100)

\* available funds that forget the reserve
CalculateAvailableFunds_NoReserve(total_balance) == RMax(Zero, total_balance)

\* calculate_available_funds
CalculateAvailableFunds(total_balance) ==
    LET reserve == RMul(total_balance, Percent(min_balance_reserve_percent))
        available == RSub(total_balance, reserve)
    IN  RMax(Zero, available)

\* a loss component that grows with the losses
LossScore_Inverted(recent_losses_) == RMin(Rat(1), RMul(Rat(recent_losses_), Fifth))

\* calculate_risk_score, lines 89-90: the recent-losses component
LossScore(recent_losses_) ==
    LET loss_penalty == RMin(Rat(1), RMul(Rat(recent_losses_), Fifth))
    IN  RMax(Zero, RSub(Rat(1), loss_penalty))

\* calculate_risk_score
CalculateRiskScore(volatility, win_rate, recent_losses_, signal_strength) ==
    LET volatility_score == RMax(Zero, RSub(Rat(1), RDiv(volatility, Tenth)))
        win_rate_score == RDiv(win_rate, Rat(100))
        loss_score == LossScore(recent_losses_)
        signal_score == Norm(signal_strength, 100)
        risk_score == RAdd(RAdd(RMul(volatility_score, <<3, 10>>),
                                RMul(win_rate_score, <<1, 4>>)),
                           RAdd(RMul(loss_score, <<1, 4>>),
                                RMul(signal_score, Fifth)))
    IN  RMax(Zero, RMin(Rat(1), risk_score))

\* get_risk_tier: the tiers in dict order low, medium, high
GetRiskTier(volatility) ==
    IF RLeq(volatility, <<1, 50>>) THEN "low"
    ELSE IF RLeq(volatility, <<1, 20>>) THEN "medium"
    ELSE "high"

\* self.risk_tiers[tier]['size_multiplier']
SizeMultiplier(tier) ==
    CASE tier = "low" -> <<3, 2>>
      [] tier = "medium" -> Rat(1)
      [] OTHER -> <<3, 5>>

\* int(x) for x >= 0
IntOf(x) == x[1] \div x[2]

\* calculate_position_size, lines 162-175: the position-size percentage used
PositionSizePercent(available_balance, volatility, win_rate, recent_losses_, signal_strength, existing_positions_value) ==
    LET risk_score == CalculateRiskScore(volatility, win_rate, recent_losses_, signal_strength)
        tier_multiplier == SizeMultiplier(GetRiskTier(volatility))
        raw == RMul(RMul(Rat(base_position_size_percent), risk_score), tier_multiplier)
        clamped == RMax(Rat(min_position_size_percent),
                        RMin(Rat(fs_max_position_size_percent), raw))
    IN  IF RGt(existing_positions_value, Zero)
           /\ RGt(RDiv(existing_positions_value, available_balance), <<1, 2>>)
        THEN RMul(clamped, <<7, 10>>)
        ELSE clamped

\* a guard that only rejects an empty account
Unaffordable_OnlyEmpty(available_funds, current_price, leverage) == RLeq(available_funds, Zero)

\* calculate_position_size, lines 149-151 (current_price > 0): one contract's
\* margin is more than the available funds
Unaffordable(available_funds, current_price, leverage) ==
    LET min_funds_needed == RDiv(current_price, Rat(leverage))
    IN  RLt(available_funds, min_funds_needed)

\* calculate_position_size (current_price > 0, leverage >= 1)
CalculatePositionSize(available_balance, current_price, leverage, volatility, win_rate, recent_losses_, signal_strength, existing_positions_value) ==
    LET available_funds == CalculateAvailableFunds(available_balance)
        position_size_percent ==
            PositionSizePercent(available_balance, volatility, win_rate, recent_losses_,
                                signal_strength, existing_positions_value)
        position_value == RMul(available_funds, RDiv(position_size_percent, Rat(100)))
        position_value_with_leverage == RMul(position_value, Rat(leverage))
        size == IntOf(RDiv(position_value_with_leverage, current_price))
    IN  IF Unaffordable(available_funds, current_price, leverage) THEN 0
        ELSE Max2(1, size)

\* a breaker that trips one loss later
CircuitBreaker_Late(recent_losses_) == recent_losses_ > 5
\* should_allow_trade, line 233: the circuit breaker
CircuitBreaker(recent_losses_) == recent_losses_ >= 5

\* a cap at the base tier instead of the minimum tier
MaxValueAfterLosses_Base(available_funds) ==
    RMul(available_funds, Percent(base_position_size_percent))

\* should_allow_trade, line 238: the position value allowed after 3 losses
MaxValueAfterLosses(available_funds) ==
    RMul(available_funds, Percent(min_position_size_percent))

\* should_allow_trade: [allow |-> bool, reason |-> the message's kind]
ShouldAllowTrade(available_balance, position_value, recent_losses_) ==
    LET available_funds == CalculateAvailableFunds(available_balance)
        max_value == MaxValueAfterLosses(available_funds)
    IN  IF RLeq(available_funds, Zero)
        THEN [allow |-> FALSE, reason |-> "Insufficient funds after reserve"]
        ELSE IF RGt(position_value, available_funds)
        THEN [allow |-> FALSE, reason |-> "Position too large"]
        ELSE IF CircuitBreaker(recent_losses_)
        THEN [allow |-> FALSE, reason |-> "Too many recent losses"]
        ELSE IF recent_losses_ >= 3 /\ RGt(position_value, max_value)
        THEN [allow |-> FALSE, reason |-> "only allowing minimum position size"]
        ELSE [allow |-> TRUE, reason |-> "Trade allowed"]

(***************************************************************************)
(* FundingStrategy as a state machine: each action is one call with        *)
(* arguments drawn from small sets.                                        *)
(***************************************************************************)
FSBalances == {Rat(0), Rat(5), Rat(100)}
FSPositionValues == {Rat(0), <<1, 5>>, <<1, 4>>, Rat(4), Rat(5), Rat(80), Rat(81)}
FSLosses == 0..MaxLosses
FSPrices == {<<1, 2>>, Rat(4), Rat(5)}
FSLeverages == {1, 11}
FSVolatilities == {<<1, 100>>, <<3, 100>>, <<2, 25>>}
FSWinRates == {Rat(0), Rat(60)}
FSStrengths == {60, 100}
FSExisting == {Rat(0), Rat(60)}

\* no call in progress (the value fs_call keeps in the other specifications)
FSIdle == [op |-> "init", done |-> TRUE]
Pending == "pending"

ShouldAllowTradeCalls ==
    {[op |-> "should_allow_trade", done |-> FALSE, available_balance |-> b,
      position_value |-> pv, recent_losses |-> rl, result |-> Pending] :
        b \in FSBalances, pv \in FSPositionValues, rl \in FSLosses}

CalculatePositionSizeCalls ==
    {[op |-> "calculate_position_size", done |-> FALSE, available_balance |-> a[1],
      current_price |-> a[2], leverage |-> a[3], volatility |-> a[4],
      win_rate |-> a[5], recent_losses |-> a[6], signal_strength |-> a[7],
      existing_positions_value |-> a[8], percent |-> Pending, result |-> Pending] :
        a \in (FSBalances \ {Rat(0)}) \X FSPrices \X FSLeverages \X FSVolatilities
                \X FSWinRates \X FSLosses \X FSStrengths \X FSExisting}

\* calculate_risk_score over the whole range of each argument
FSRiskVolatilities == {Rat(0), <<3, 100>>, <<1, 5>>}
FSRiskWinRates == {Rat(0), Rat(60), Rat(100)}
FSRiskStrengths == {0, 60, 100}

CalculateRiskScoreCalls ==
    {[op |-> "calculate_risk_score", done |-> FALSE, volatility |-> v, win_rate |-> w,
      recent_losses |-> rl, signal_strength |-> st, result |-> Pending] :
        v \in FSRiskVolatilities, w \in FSRiskWinRates, rl \in FSLosses,
        st \in FSRiskStrengths}

\* the arguments of one call, drawn from the sets above
FSInit ==
    fs_call \in ShouldAllowTradeCalls \cup CalculatePositionSizeCalls
                \cup CalculateRiskScoreCalls

FSShouldAllowTrade ==
    /\ fs_call.op = "should_allow_trade" /\ ~fs_call.done
    /\ fs_call' = [fs_call EXCEPT
            !.done = TRUE,
            !.result = ShouldAllowTrade(fs_call.available_balance, fs_call.position_value,
                                        fs_call.recent_losses)]

FSCalculatePositionSize ==
    /\ fs_call.op = "calculate_position_size" /\ ~fs_call.done
    /\ fs_call' = [fs_call EXCEPT
            !.done = TRUE,
            !.percent = PositionSizePercent(fs_call.available_balance, fs_call.volatility,
                            fs_call.win_rate, fs_call.recent_losses,
                            fs_call.signal_strength, fs_call.existing_positions_value),
            !.result = CalculatePositionSize(fs_call.available_balance,
                            fs_call.current_price, fs_call.leverage, fs_call.volatility,
                            fs_call.win_rate, fs_call.recent_losses,
                            fs_call.signal_strength, fs_call.existing_positions_value)]

FSCalculateRiskScore ==
    /\ fs_call.op = "calculate_risk_score" /\ ~fs_call.done
    /\ fs_call' = [fs_call EXCEPT
            !.done = TRUE,
            !.result = CalculateRiskScore(fs_call.volatility, fs_call.win_rate,
                                          fs_call.recent_losses, fs_call.signal_strength)]

(***************************************************************************)
(* HedgeStrategy (hedge_strategy.py), configured as Config configures it.  *)
(***************************************************************************)
leverage == 11
max_position_size_percent == 80
stop_loss_percent == 5
take_profit_percent == 8
trailing_stop_percent == 3

\* the value None of a water mark or of an absent position
NoPrice == <<>>

\* f"{x:.2f}": x in hundredths, rounded to nearest, ties to even
Round2(x) ==
    LET n == x[1] * 100
        q == n \div x[2]
        r == n % x[2]
    IN  IF 2 * r < x[2] THEN q
        ELSE IF 2 * r > x[2] THEN q + 1
        ELSE IF q % 2 = 0 THEN q ELSE q + 1

\* ((a - b) / c) * 100
PercentOf(a, b, c) == RMul(RDiv(RSub(a, b), c), Rat(100))

StopLossTriggered_Strict(price_change_percent) ==
    RLt(price_change_percent, RNeg(Rat(stop_loss_percent)))

StopLossTriggered(price_change_percent) ==
    RLeq(price_change_percent, RNeg(Rat(stop_loss_percent)))

TakeProfitTriggered(price_change_percent) ==
    RGeq(price_change_percent, Rat(take_profit_percent))

TrailingStopTriggered(trailing_percent) ==
    RGeq(trailing_percent, Rat(trailing_stop_percent))

RaiseHigh_Latest(highest_price_long_, current_price) == current_price

\* lines 92-95: the high-water mark after seeing current_price
RaiseHigh(highest_price_long_, current_price) ==
    IF highest_price_long_ = NoPrice THEN current_price
    ELSE RMax(highest_price_long_, current_price)

\* lines 120-123: the low-water mark after seeing current_price
LowerLow(lowest_price_short_, current_price) ==
    IF lowest_price_short_ = NoPrice THEN current_price
    ELSE RMin(lowest_price_short_, current_price)

\* should_close_long: the returned (close, reason) and self.highest_price_long
\* after the call (entry_price > 0)
ShouldCloseLong(highest_price_long_, current_price, entry_price, position_qty) ==
    IF position_qty <= 0
    THEN [close |-> FALSE, reason |-> <<"No long position to close">>,
          high |-> highest_price_long_]
    ELSE
    LET price_change_percent == PercentOf(current_price, entry_price, entry_price)
        high == RaiseHigh(highest_price_long_, current_price)
        trailing_percent == PercentOf(high, current_price, high)
    IN  IF StopLossTriggered(price_change_percent)
        THEN [close |-> TRUE,
              reason |-> <<"Stop loss triggered", Round2(price_change_percent)>>,
              high |-> highest_price_long_]
        ELSE IF TakeProfitTriggered(price_change_percent)
        THEN [close |-> TRUE,
              reason |-> <<"Take profit triggered", Round2(price_change_percent)>>,
              high |-> highest_price_long_]
        ELSE IF TrailingStopTriggered(trailing_percent)
        THEN [close |-> TRUE,
              reason |-> <<"Trailing stop triggered", Round2(trailing_percent), "from high">>,
              high |-> high]
        ELSE [close |-> FALSE, reason |-> <<"Holding long position">>, high |-> high]

\* should_close_short: the returned (close, reason) and self.lowest_price_short
\* after the call (entry_price > 0)
ShouldCloseShort(lowest_price_short_, current_price, entry_price, position_qty) ==
    IF position_qty >= 0
    THEN [close |-> FALSE, reason |-> <<"No short position to close">>,
          low |-> lowest_price_short_]
    ELSE
    LET price_change_percent == PercentOf(entry_price, current_price, entry_price)
        low == LowerLow(lowest_price_short_, current_price)
        trailing_percent == PercentOf(current_price, low, low)
    IN  IF StopLossTriggered(price_change_percent)
        THEN [close |-> TRUE,
              reason |-> <<"Stop loss triggered", Round2(RNeg(price_change_percent))>>,
              low |-> lowest_price_short_]
        ELSE IF TakeProfitTriggered(price_change_percent)
        THEN [close |-> TRUE,
              reason |-> <<"Take profit triggered", Round2(price_change_percent)>>,
              low |-> lowest_price_short_]
        ELSE IF TrailingStopTriggered(trailing_percent)
        THEN [close |-> TRUE,
              reason |-> <<"Trailing stop triggered", Round2(trailing_percent), "from low">>,
              low |-> low]
        ELSE [close |-> FALSE, reason |-> <<"Holding short position">>, low |-> low]

\* a flat account: get_current_position returns None, run_backtest starts with None
NoPosition ==
    [currentQty |-> 0, avgEntryPrice |-> NoPrice, unrealisedPnl |-> Zero,
     unrealisedPnlPcnt |-> Zero]

\* calculate_position_size(available_balance, current_price) of hedge_strategy.py
LegacyPositionSize(available_balance, current_price) ==
    LET position_value == RMul(available_balance, Percent(max_position_size_percent))
        position_value_with_leverage == RMul(position_value, Rat(leverage))
        size == IntOf(RDiv(position_value_with_leverage, current_price))
    IN  Max2(1, size)

\* calculate_hedge_size
CalculateHedgeSize(current_position_size) == Max2(1, Abs(current_position_size) \div 2)

\* a loss test that already counts a loss of exactly 2%
LosingEnough_AtThreshold(unrealized_pnl_pcnt) == RLeq(unrealized_pnl_pcnt, Rat(-2))

\* should_hedge, lines 144 and 149: unrealized_pnl_pcnt < -2
LosingEnough(unrealized_pnl_pcnt) == RLt(unrealized_pnl_pcnt, Rat(-2))

\* should_hedge: (should_hedge, reason, hedge_side)
ShouldHedge(signal, current_position) ==
    LET current_qty == current_position.currentQty
        losing == LosingEnough(current_position.unrealisedPnlPcnt)
    IN  IF current_qty = 0
        THEN [hedge |-> FALSE, reason |-> "No position to hedge", side |-> None]
        ELSE IF current_qty > 0 /\ losing /\ signal.action = "sell" /\ signal.strength >= 50
        THEN [hedge |-> TRUE, reason |-> "Hedging long position with short", side |-> "sell"]
        ELSE IF current_qty < 0 /\ losing /\ signal.action = "buy" /\ signal.strength >= 50
        THEN [hedge |-> TRUE, reason |-> "Hedging short position with long", side |-> "buy"]
        ELSE [hedge |-> FALSE, reason |-> "No hedge needed", side |-> None]

\* an exit branch that closes every position by selling
SuggestExit_SellToClose(signal, current_position, high, low) ==
    LET current_qty == current_position.currentQty
        exit == IF current_qty > 0
                THEN ShouldCloseLong(high, signal.current_price,
                                     current_position.avgEntryPrice, current_qty)
                ELSE ShouldCloseShort(low, signal.current_price,
                                      current_position.avgEntryPrice, current_qty)
    IN  IF exit.close
        THEN [action |-> "close", side |-> "sell", reason |-> exit.reason,
              confidence |-> 100, high |-> high, low |-> low]
        ELSE [action |-> "hold", side |-> None, reason |-> <<"Monitoring position">>,
              confidence |-> 50, high |-> high, low |-> low]

\* suggest_action, lines 215-270: the branch taken with a position
SuggestExit(signal, current_position, high, low) ==
    LET current_qty == current_position.currentQty
        long == ShouldCloseLong(high, signal.current_price,
                                current_position.avgEntryPrice, current_qty)
        short == ShouldCloseShort(low, signal.current_price,
                                  current_position.avgEntryPrice, current_qty)
        hedge == ShouldHedge(signal, current_position)
        high_after == IF current_qty > 0 THEN long.high ELSE high
        low_after == IF current_qty < 0 THEN short.low ELSE low
        exit == IF current_qty > 0 THEN long ELSE short
    IN  IF exit.close
        THEN [action |-> "close", side |-> IF current_qty > 0 THEN "sell" ELSE "buy",
              reason |-> exit.reason, confidence |-> 100,
              high |-> high_after, low |-> low_after]
        ELSE IF hedge.hedge
        THEN [action |-> "hedge", side |-> hedge.side, reason |-> <<hedge.reason>>,
              confidence |-> signal.strength, high |-> high_after, low |-> low_after]
        ELSE [action |-> "hold", side |-> None, reason |-> <<"Monitoring position">>,
              confidence |-> 50, high |-> high_after, low |-> low_after]

\* a balance guard that lets a balance of exactly 1 through
InsufficientBalance_Strict(available_balance) == RLt(available_balance, Rat(1))

\* suggest_action, line 189
InsufficientBalance(available_balance) == RLeq(available_balance, Rat(1))

\* an entry rule that accepts the strength a hedge needs
EntrySignal_Weak(signal) == signal.action \in {"buy", "sell"} /\ signal.strength >= 50

\* suggest_action, lines 202 and 209: the signal opens a position
EntrySignal(signal) == signal.action \in {"buy", "sell"} /\ signal.strength >= 60

\* suggest_action: the suggestion, with the water marks the call leaves behind
SuggestAction(signal, current_position, available_balance, high, low) ==
    IF InsufficientBalance(available_balance)
    THEN [action |-> "none", side |-> None, reason |-> <<"Insufficient balance">>,
          confidence |-> 0, high |-> high, low |-> low]
    ELSE IF current_position.currentQty = 0
    THEN IF EntrySignal(signal)
         THEN [action |-> "open", side |-> signal.action, reason |-> <<"signal">>,
               confidence |-> signal.strength, high |-> high, low |-> low]
         ELSE [action |-> "wait", side |-> None, reason |-> <<"No strong entry signal">>,
               confidence |-> signal.strength, high |-> high, low |-> low]
    ELSE SuggestExit(signal, current_position, high, low)

(***************************************************************************)
(* HedgeStrategy as a state machine: calls on one instance.                *)
(***************************************************************************)
\* prices in 1/10000 around an entry of 0.52: the stop-loss thresholds of a long
\* (0.494) and of a short (0.546), the take-profit threshold of a short (0.4784),
\* a price past the take profit of a long (0.57), a high (0.55) and the price 3%
\* under it (0.5335). On each of them the source's floating-point comparisons
\* decide as exact arithmetic does.
HSPrice(ticks) == Norm(ticks, 10000)
HSPrices == {HSPrice(t) : t \in {4784, 4940, 5200, 5335, 5460, 5500, 5700}}
HSEntries == {HSPrice(5200)}
HSLongQtys == {0, 10}
HSShortQtys == {-10, 0}

HSNoCall ==
    [op |-> "init", current_price |-> NoPrice, entry_price |-> NoPrice, position_qty |-> 0,
     high |-> NoPrice, low |-> NoPrice, seen |-> NoPrice, close |-> FALSE, reason |-> <<>>]

\* the signals, positions and balances of direct suggest_action calls: strengths
\* around the entry threshold 60 and the hedge threshold 50, an unrealisedPnlPcnt
\* on and under the hedge threshold -2, balances on and around the guard's 1
HSSuggestPrices == {HSPrice(t) : t \in {4940, 5335, 5500}}
HSSignals ==
    {[action |-> a, strength |-> st, current_price |-> p] :
        a \in {"buy", "sell"}, st \in {40, 50, 60, 75}, p \in HSSuggestPrices}
    \cup {[action |-> "hold", strength |-> 60, current_price |-> p] : p \in HSSuggestPrices}
HSPositions ==
    {NoPosition} \cup
    {[currentQty |-> q, avgEntryPrice |-> e, unrealisedPnl |-> Zero, unrealisedPnlPcnt |-> pc] :
        q \in {-10, 10}, e \in HSEntries, pc \in {Rat(-3), Rat(-2)}}
HSAvailableBalances == {<<1, 2>>, Rat(1), Rat(100)}

HSNoSuggestion ==
    [op |-> "init", signal |-> [action |-> "hold", strength |-> 0, current_price |-> NoPrice],
     current_position |-> NoPosition, available_balance |-> Zero,
     result |-> [action |-> "none", side |-> None, confidence |-> 0]]

\* HedgeStrategy.__init__ leaves both water marks None
HSInit ==
    /\ highest_price_long = NoPrice
    /\ lowest_price_short = NoPrice
    /\ hs_call = HSNoCall
    /\ seen_high_long = NoPrice
    /\ hs_suggestion = HSNoSuggestion

\* should_close_long(current_price, entry_price, position_qty, unrealized_pnl)
HSShouldCloseLong ==
    \E current_price \in HSPrices, entry_price \in HSEntries, position_qty \in HSLongQtys :
        LET r == ShouldCloseLong(highest_price_long, current_price, entry_price, position_qty)
        IN  /\ highest_price_long' = r.high
            /\ seen_high_long' = IF position_qty > 0
                                 THEN RaiseHigh(seen_high_long, current_price)
                                 ELSE seen_high_long
            /\ hs_call' = [op |-> "should_close_long", current_price |-> current_price,
                           entry_price |-> entry_price, position_qty |-> position_qty,
                           high |-> highest_price_long, low |-> lowest_price_short,
                           seen |-> seen_high_long, close |-> r.close, reason |-> r.reason]
            /\ UNCHANGED <<lowest_price_short, hs_suggestion>>

\* should_close_short(current_price, entry_price, position_qty, unrealized_pnl)
HSShouldCloseShort ==
    \E current_price \in HSPrices, entry_price \in HSEntries, position_qty \in HSShortQtys :
        LET r == ShouldCloseShort(lowest_price_short, current_price, entry_price, position_qty)
        IN  /\ lowest_price_short' = r.low
            /\ hs_call' = [op |-> "should_close_short", current_price |-> current_price,
                           entry_price |-> entry_price, position_qty |-> position_qty,
                           high |-> highest_price_long, low |-> lowest_price_short,
                           seen |-> seen_high_long, close |-> r.close, reason |-> r.reason]
            /\ UNCHANGED <<highest_price_long, seen_high_long, hs_suggestion>>

\* reset_tracking()
HSResetTracking ==
    /\ highest_price_long' = NoPrice
    /\ lowest_price_short' = NoPrice
    /\ seen_high_long' = NoPrice
    /\ hs_call' = [HSNoCall EXCEPT !.op = "reset_tracking", !.high = highest_price_long,
                                   !.low = lowest_price_short, !.seen = seen_high_long]
    /\ UNCHANGED hs_suggestion

\* suggest_action(signal, current_position, available_balance)
HSSuggestAction ==
    \E signal \in HSSignals, current_position \in HSPositions,
       available_balance \in HSAvailableBalances :
        \E r \in {SuggestAction(signal, current_position, available_balance,
                                highest_price_long, lowest_price_short)} :
            /\ highest_price_long' = r.high
            /\ lowest_price_short' = r.low
            /\ hs_suggestion' =
                    [op |-> "suggest_action", signal |-> signal,
                     current_position |-> current_position,
                     available_balance |-> available_balance,
                     result |-> [action |-> r.action, side |-> r.side,
                                 confidence |-> r.confidence]]
            /\ UNCHANGED <<hs_call, seen_high_long>>

\* reset_tracking() between suggest_action calls, as run_cycle calls it
HSSuggestReset ==
    /\ highest_price_long' = NoPrice
    /\ lowest_price_short' = NoPrice
    /\ hs_suggestion' = [HSNoSuggestion EXCEPT !.op = "reset_tracking"]
    /\ UNCHANGED <<hs_call, seen_high_long>>

(***************************************************************************)
(* XRPHedgeBot.run_cycle (bot.py) with the funding strategy enabled and    *)
(* the optional modules unavailable (multi_pair, diversifier,              *)
(* dynamic_leverage and telegram are None), trading several pairs.         *)
(***************************************************************************)
\* Config.TRADING_PAIRS
BotSymbols == <<"XRPUSDTM", "BTCUSDTM">>
\* get_account_balance()
BotBalances == {Rat(1), Rat(5), Rat(100)}
\* market_data['price']
BotPrices == {Rat(96), Rat(100), Rat(109)}
\* analyze_market(market_data): action and strength of the signal
BotSignals ==
    {[action |-> "buy", strength |-> 60], [action |-> "sell", strength |-> 60],
     [action |-> "hold", strength |-> 50]}
\* calculate_volatility(klines): its default, returned for fewer than 2 klines
BotVolatilities == {<<3, 100>>}
\* calculate_win_rate(): its default, returned before any completed trade
BotWinRates == {Rat(50)}

\* strategy.calculate_position_size(available_balance=..., ...) as run_cycle calls
\* it: hedge_strategy.py holds only the 2-argument form, the 7-argument form hands
\* the sizing to the funding strategy at the strategy's leverage
StrategyPositionSize(available_balance, current_price, volatility, win_rate, recent_losses_, signal_strength, existing_positions_value) ==
    CalculatePositionSize(available_balance, current_price, leverage, volatility, win_rate,
                          recent_losses_, signal_strength, existing_positions_value)

\* the position get_current_position(symbol) returns when the ticker is at price
PositionAt(held, price) ==
    IF held.currentQty = 0 THEN NoPosition
    ELSE [currentQty |-> held.currentQty,
          avgEntryPrice |-> held.avgEntryPrice,
          unrealisedPnl |->
              RMul(Rat(held.currentQty), RSub(price, held.avgEntryPrice)),
          unrealisedPnlPcnt |->
              IF held.currentQty > 0
              THEN PercentOf(price, held.avgEntryPrice, held.avgEntryPrice)
              ELSE PercentOf(held.avgEntryPrice, price, held.avgEntryPrice)]

\* what the account holds: contracts (long > 0, short < 0) and their entry price
Flat == [currentQty |-> 0, avgEntryPrice |-> NoPrice]
Holdings ==
    {Flat} \cup {[currentQty |-> q, avgEntryPrice |-> e] :
                    q \in {-1, 1}, e \in BotPrices}

\* lines 629-636: abs(currentQty) * avgEntryPrice summed over the positions held,
\* from pair i on (self.positions as the last fetch of each pair left it)
RECURSIVE ExistingPositionsValue(_, _)
ExistingPositionsValue(positions, i) ==
    IF i > Len(BotSymbols) THEN Zero
    ELSE IF positions[i].currentQty = 0 THEN ExistingPositionsValue(positions, i + 1)
    ELSE RAdd(RMul(Rat(Abs(positions[i].currentQty)), positions[i].avgEntryPrice),
              ExistingPositionsValue(positions, i + 1))

\* the account after a market order of `size` contracts on `side` fills at price
AfterOrder(held, side, size, price) ==
    LET qty == held.currentQty + (IF side = "buy" THEN size ELSE -size)
    IN  IF qty = 0 THEN Flat
        ELSE IF held.currentQty = 0 \/ (held.currentQty > 0) # (qty > 0)
        THEN [currentQty |-> qty, avgEntryPrice |-> price]
        ELSE [currentQty |-> qty, avgEntryPrice |-> held.avgEntryPrice]

\* a step of run_cycle: the suggestion acted on, what became of the order, for an
\* executed close whether the position's unrealisedPnl was > 0, and for an open
\* that was sized the market_data['price'] it was sized at
BotNoEvent == [action |-> "start", outcome |-> "none", win |-> FALSE, price |-> NoPrice]

BotInit ==
    /\ recent_losses = 0
    /\ exchange_position \in [DOMAIN BotSymbols -> {Flat}]
    /\ bot_pc = 0
    /\ bot_balance = Zero
    /\ bot_event = BotNoEvent

\* a loop that takes the same pair again
NextPc_Same(pc) == pc

\* run_cycle, line 569: the pair the for loop goes on with, 0 after the last
NextPc(pc) == IF pc = Len(BotSymbols) THEN 0 ELSE pc + 1

TradeAllowed_Always(balance, position_value, losses) == TRUE

\* lines 651-658: funding_strategy.should_allow_trade(balance, position_value,
\* self.recent_losses)
TradeAllowed(balance, position_value, losses) ==
    ShouldAllowTrade(balance, position_value, losses).allow

\* an executed open that leaves self.recent_losses as it was
BotOpen_KeepLosses(held, price, suggestion, size, order_ok) ==
    LET position_value == RDiv(RMul(Rat(size), price), Rat(leverage))
        kept == [losses |-> recent_losses, held |-> held,
                 high |-> suggestion.high, low |-> suggestion.low]
    IN  IF ~RGt(bot_balance, Zero) THEN kept @@ [outcome |-> "none"]
        ELSE IF size <= 0 THEN kept @@ [outcome |-> "zero_size"]
        ELSE IF ~TradeAllowed(bot_balance, position_value, recent_losses)
        THEN kept @@ [outcome |-> "blocked"]
        ELSE IF ~order_ok THEN kept @@ [outcome |-> "failed"]
        ELSE [losses |-> recent_losses,
              held |-> AfterOrder(held, suggestion.side, size, price),
              high |-> NoPrice, low |-> NoPrice, outcome |-> "placed"]

\* lines 623-666: suggestion 'open'
BotOpen(held, price, suggestion, size, order_ok) ==
    LET position_value == RDiv(RMul(Rat(size), price), Rat(leverage))
        kept == [losses |-> recent_losses, held |-> held,
                 high |-> suggestion.high, low |-> suggestion.low]
    IN  IF ~RGt(bot_balance, Zero) THEN kept @@ [outcome |-> "none"]
        ELSE IF size <= 0 THEN kept @@ [outcome |-> "zero_size"]
        ELSE IF ~TradeAllowed(bot_balance, position_value, recent_losses)
        THEN kept @@ [outcome |-> "blocked"]
        ELSE IF ~order_ok THEN kept @@ [outcome |-> "failed"]
        ELSE [losses |-> 0, held |-> AfterOrder(held, suggestion.side, size, price),
              high |-> NoPrice, low |-> NoPrice, outcome |-> "placed"]

\* lines 668-692: suggestion 'close'
BotClose(held, price, suggestion, order_ok) ==
    LET position == PositionAt(held, price)
        size == Abs(position.currentQty)
        pnl == position.unrealisedPnl
        kept == [losses |-> recent_losses, held |-> held,
                 high |-> suggestion.high, low |-> suggestion.low]
    IN  IF size <= 0 THEN kept @@ [outcome |-> "none"]
        ELSE IF ~order_ok THEN kept @@ [outcome |-> "failed"]
        ELSE [losses |-> IF RGt(pnl, Zero) THEN 0 ELSE recent_losses + 1,
              held |-> AfterOrder(held, suggestion.side, size, price),
              high |-> NoPrice, low |-> NoPrice, outcome |-> "placed"]

\* lines 694-698: suggestion 'hedge'
BotHedge(held, price, suggestion, order_ok) ==
    LET hedge_size == CalculateHedgeSize(held.currentQty)
    IN  [losses |-> recent_losses,
         held |-> IF order_ok THEN AfterOrder(held, suggestion.side, hedge_size, price)
                  ELSE held,
         high |-> suggestion.high, low |-> suggestion.low,
         outcome |-> IF order_ok THEN "placed" ELSE "failed"]

\* run_cycle, lines 545-566: read the balance, start the loop over the pairs
BotStartCycle ==
    /\ bot_pc = 0
    /\ \E balance \in BotBalances : bot_balance' = balance
    /\ bot_pc' = 1
    /\ bot_event' = BotNoEvent
    /\ UNCHANGED <<recent_losses, exchange_position, highest_price_long, lowest_price_short>>

\* run_cycle, lines 578-582: no market data for the pair, skip it; next_pc is the
\* pair the loop goes on with, 0 when the loop is over
BotSkipPass(next_pc) ==
    /\ bot_pc > 0
    /\ bot_pc' = next_pc
    /\ bot_balance' = IF next_pc = 0 THEN Zero ELSE bot_balance
    /\ bot_event' = [BotNoEvent EXCEPT !.action = "skip"]
    /\ UNCHANGED <<recent_losses, exchange_position, highest_price_long, lowest_price_short>>

BotSkipPair == BotSkipPass(NextPc(bot_pc))

\* run_cycle, lines 569-698: one pass of the loop over trading_symbols; next_pc
\* is the pair the loop goes on with, 0 when the loop is over
BotPass(next_pc) ==
    /\ bot_pc > 0
    /\ \E price \in BotPrices, signal \in BotSignals, volatility \in BotVolatilities,
          win_rate \in BotWinRates, order_ok \in BOOLEAN :
        \E held \in {exchange_position[bot_pc]} :
        \E position \in {PositionAt(held, price)} :
        \E suggestion \in
            {SuggestAction([action |-> signal.action, strength |-> signal.strength,
                            current_price |-> price],
                           position, bot_balance, highest_price_long, lowest_price_short)} :
        \E size \in
            {IF suggestion.action = "open" /\ RGt(bot_balance, Zero)
             THEN StrategyPositionSize(bot_balance, price, volatility, win_rate,
                                       recent_losses, signal.strength,
                                       ExistingPositionsValue(exchange_position, 1))
             ELSE 0} :
        \E done \in
            {CASE suggestion.action = "open" ->
                    BotOpen(held, price, suggestion, size, order_ok)
               [] suggestion.action = "close" ->
                    BotClose(held, price, suggestion, order_ok)
               [] suggestion.action = "hedge" ->
                    BotHedge(held, price, suggestion, order_ok)
               [] OTHER ->
                    [losses |-> recent_losses, held |-> held, high |-> suggestion.high,
                     low |-> suggestion.low, outcome |-> "none"]} :
            /\ done.losses <= MaxLosses
            /\ recent_losses' = done.losses
            /\ exchange_position' = [exchange_position EXCEPT ![bot_pc] = done.held]
            /\ highest_price_long' = done.high
            /\ lowest_price_short' = done.low
            /\ bot_event' = [action |-> suggestion.action, outcome |-> done.outcome,
                             win |-> /\ suggestion.action = "close"
                                     /\ done.outcome = "placed"
                                     /\ RGt(position.unrealisedPnl, Zero),
                             price |-> IF suggestion.action = "open"
                                          /\ done.outcome # "none"
                                       THEN price ELSE NoPrice]
    /\ bot_pc' = next_pc
    /\ bot_balance' = IF next_pc = 0 THEN Zero ELSE bot_balance

BotProcessPair == BotPass(NextPc(bot_pc))

\* generate_signal converts no candle when it has fewer than this many
min_candles == 30

\* market_data['klines'] by the close of each candle, NoPrice for a candle the
\* exchange sent without one: 30 sound candles, 30 candles one of them without a
\* close, and 10 candles one of them without a close
BotKlines ==
    {[i \in 1..min_candles |-> Rat(100)],
     [i \in 1..min_candles |-> IF i = 5 THEN NoPrice ELSE Rat(100)],
     [i \in 1..10 |-> IF i = 5 THEN NoPrice ELSE Rat(100)]}

\* generate_signal: closes = [float(k[4]) for k in klines_data] raises TypeError
\* on a close of None
GenerateSignalRaises(klines) ==
    /\ Len(klines) >= min_candles
    /\ \E i \in 1..Len(klines) : klines[i] = NoPrice

\* run_cycle, lines 585 and 725-731: analyze_market raises for the pair, nothing
\* inside the loop catches it, the handler around the whole cycle logs it and
\* run_cycle returns
BotAnalyzeRaises ==
    /\ bot_pc > 0
    /\ \E klines \in BotKlines : GenerateSignalRaises(klines)
    /\ bot_pc' = 0
    /\ bot_balance' = Zero
    /\ bot_event' = [BotNoEvent EXCEPT !.action = "error"]
    /\ UNCHANGED <<recent_losses, exchange_position, highest_price_long, lowest_price_short>>

\* between two cycles the account changes outside the bot: a manual order, a
\* liquidation
ExchangeFill ==
    /\ bot_pc = 0
    /\ \E i \in DOMAIN BotSymbols, held \in Holdings :
        exchange_position' = [exchange_position EXCEPT ![i] = held]
    /\ UNCHANGED <<recent_losses, bot_pc, bot_balance, bot_event,
                   highest_price_long, lowest_price_short>>

(***************************************************************************)
(* Single-instrument operation: bot.py with one entry in TRADING_PAIRS and  *)
(* bot_legacy.py, which trades Config.SYMBOL only.  The instrument is the   *)
(* first of BotSymbols; nothing but the bot's orders changes its position.  *)
(***************************************************************************)
\* bot.py, the pass of the loop for the only pair: the loop is over after it
BotProcessOnlyPair == bot_pc = 1 /\ BotPass(0)

\* bot.py, no market data for the only pair
BotSkipOnlyPair == bot_pc = 1 /\ BotSkipPass(0)

\* bot_legacy.run_cycle, lines 314-342: suggestion 'open' (no test of the balance
\* before sizing; position_value at Config.LEVERAGE)
LegacyOpen(balance, held, price, suggestion, size, order_ok) ==
    LET position_value == RDiv(RMul(Rat(size), price), Rat(leverage))
        kept == [losses |-> recent_losses, held |-> held,
                 high |-> suggestion.high, low |-> suggestion.low]
    IN  IF size <= 0 THEN kept @@ [outcome |-> "zero_size"]
        ELSE IF ~TradeAllowed(balance, position_value, recent_losses)
        THEN kept @@ [outcome |-> "blocked"]
        ELSE IF ~order_ok THEN kept @@ [outcome |-> "failed"]
        ELSE [losses |-> 0, held |-> AfterOrder(held, suggestion.side, size, price),
              high |-> NoPrice, low |-> NoPrice, outcome |-> "placed"]

\* bot_legacy.run_cycle, lines 344-358: suggestion 'close'; a loss is pnl < 0
LegacyClose(held, price, suggestion, order_ok) ==
    LET position == PositionAt(held, price)
        size == Abs(position.currentQty)
        pnl == position.unrealisedPnl
        kept == [losses |-> recent_losses, held |-> held,
                 high |-> suggestion.high, low |-> suggestion.low]
    IN  IF size <= 0 THEN kept @@ [outcome |-> "none"]
        ELSE IF ~order_ok THEN kept @@ [outcome |-> "failed"]
        ELSE [losses |-> IF RLt(pnl, Zero) THEN recent_losses + 1 ELSE 0,
              held |-> AfterOrder(held, suggestion.side, size, price),
              high |-> NoPrice, low |-> NoPrice, outcome |-> "placed"]

\* bot_legacy.run_cycle, lines 302-305: no market data, the cycle returns
LegacySkipCycle ==
    /\ bot_pc = 0
    /\ bot_event' = [BotNoEvent EXCEPT !.action = "skip"]
    /\ UNCHANGED <<recent_losses, exchange_position, bot_pc, bot_balance,
                   highest_price_long, lowest_price_short>>

\* bot_legacy.run_cycle, lines 288-372: one whole cycle with market data
LegacyRunCycle ==
    /\ bot_pc = 0
    /\ \E balance \in BotBalances, price \in BotPrices, signal \in BotSignals,
          volatility \in BotVolatilities, win_rate \in BotWinRates, order_ok \in BOOLEAN :
        \E held \in {exchange_position[1]} :
        \E position \in {PositionAt(held, price)} :
        \E suggestion \in
            {SuggestAction([action |-> signal.action, strength |-> signal.strength,
                            current_price |-> price],
                           position, balance, highest_price_long, lowest_price_short)} :
        \E size \in
            {IF suggestion.action = "open"
             THEN StrategyPositionSize(balance, price, volatility, win_rate,
                                       recent_losses, signal.strength, Zero)
             ELSE 0} :
        \E done \in
            {CASE suggestion.action = "open" ->
                    LegacyOpen(balance, held, price, suggestion, size, order_ok)
               [] suggestion.action = "close" ->
                    LegacyClose(held, price, suggestion, order_ok)
               [] suggestion.action = "hedge" ->
                    BotHedge(held, price, suggestion, order_ok)
               [] OTHER ->
                    [losses |-> recent_losses, held |-> held, high |-> suggestion.high,
                     low |-> suggestion.low, outcome |-> "none"]} :
            /\ done.losses <= MaxLosses
            /\ recent_losses' = done.losses
            /\ exchange_position' = [exchange_position EXCEPT ![1] = done.held]
            /\ highest_price_long' = done.high
            /\ lowest_price_short' = done.low
            /\ bot_event' = [action |-> suggestion.action, outcome |-> done.outcome,
                             win |-> /\ suggestion.action = "close"
                                     /\ done.outcome = "placed"
                                     /\ RGt(position.unrealisedPnl, Zero),
                             price |-> IF suggestion.action = "open"
                                       THEN price ELSE NoPrice]
    /\ UNCHANGED <<bot_pc, bot_balance>>

(***************************************************************************)
(* The trade statistics of bot.py on one pair.                             *)
(***************************************************************************)
\* __init__, lines 175-176
StatsIdle == winning_trades = 0 /\ losing_trades = 0

\* position['realisedPnl'] as the exchange reports it for a held position: none
\* yet, fees paid, a part closed with a profit
RealisedPnls == {Zero, Rat(-1), Rat(1)}

\* what one cycle on the only pair adds to the counters: run_cycle, lines 676-682,
\* at an executed close, and update_statistics(position), lines 492-503, with the
\* position fetched when the loop is over (None when the account is flat)
CycleStatistics(realised_pnl) ==
    LET closed == bot_event'.action = "close" /\ bot_event'.outcome = "placed"
        held == exchange_position'[1].currentQty # 0
        wins == (IF closed /\ bot_event'.win THEN 1 ELSE 0)
                    + (IF held /\ RGt(realised_pnl, Zero) THEN 1 ELSE 0)
        losses == (IF closed /\ ~bot_event'.win THEN 1 ELSE 0)
                    + (IF held /\ RLt(realised_pnl, Zero) THEN 1 ELSE 0)
    IN  /\ winning_trades + losing_trades + wins + losses <= MaxCounted
        /\ winning_trades' = winning_trades + wins
        /\ losing_trades' = losing_trades + losses

\* run_cycle, lines 569-704: the pass for the only pair, then the statistics
BotProcessOnlyPairStats ==
    /\ BotProcessOnlyPair
    /\ \E realised_pnl \in RealisedPnls : CycleStatistics(realised_pnl)

\* run_cycle, lines 578-582 and 700-704: no market data, then the statistics
BotSkipOnlyPairStats ==
    /\ BotSkipOnlyPair
    /\ \E realised_pnl \in RealisedPnls : CycleStatistics(realised_pnl)

(***************************************************************************)
(* BacktestEngine.run_backtest (backtesting.py) on its own HedgeStrategy.  *)
(***************************************************************************)
initial_balance == 100

BTNoEvent == [action |-> "start", executed |-> FALSE]

\* BacktestEngine.__init__; the strategy's water marks start as HSInit leaves them
BTInit ==
    /\ bt_candle = 0
    /\ bt_balance = Zero
    /\ bt_position = Flat
    /\ bt_event = BTNoEvent

\* the dict run_backtest keeps in current_position
BTPosition(held) ==
    IF held.currentQty = 0 THEN NoPosition
    ELSE [currentQty |-> held.currentQty, avgEntryPrice |-> held.avgEntryPrice,
          unrealisedPnl |-> Zero, unrealisedPnlPcnt |-> Zero]

\* simulate_trade: the balance after the trade
SimulateTrade(action, side, size, price, balance, last_pos) ==
    LET position_value == RDiv(RMul(Rat(size), price), Rat(leverage))
        pnl == IF side = "sell" /\ last_pos.currentQty > 0
               THEN RMul(RSub(price, last_pos.avgEntryPrice), Rat(size * leverage))
               ELSE IF side = "buy" /\ last_pos.currentQty < 0
               THEN RMul(RSub(last_pos.avgEntryPrice, price), Rat(size * leverage))
               ELSE Zero
    IN  IF action = "close" THEN RAdd(balance, pnl) ELSE RSub(balance, position_value)

\* run_backtest, lines 149-160: (re)start a run on the engine
BTStart ==
    /\ bt_candle = 0
    /\ bt_candle' = 1
    /\ bt_balance' = Rat(initial_balance)
    /\ bt_position' = Flat
    /\ bt_event' = BTNoEvent
    /\ UNCHANGED <<highest_price_long, lowest_price_short>>

\* run_backtest, lines 163-210: one pass of the loop over the candles
BTCandle ==
    /\ bt_candle > 0
    /\ \E current_price \in BotPrices, signal \in BotSignals :
        \E suggestion \in
            {SuggestAction([action |-> signal.action, strength |-> signal.strength,
                            current_price |-> current_price],
                           BTPosition(bt_position), bt_balance,
                           highest_price_long, lowest_price_short)} :
            /\ highest_price_long' = suggestion.high
            /\ lowest_price_short' = suggestion.low
            /\ IF suggestion.action = "open" /\ RGt(bt_balance, Zero)
               THEN \E size \in {LegacyPositionSize(bt_balance, current_price)} :
                    /\ bt_balance' = SimulateTrade("open", suggestion.side, size,
                                                   current_price, bt_balance, bt_position)
                    /\ bt_position' = [currentQty |-> IF suggestion.side = "buy"
                                                      THEN size ELSE -size,
                                       avgEntryPrice |-> current_price]
                    /\ bt_event' = [action |-> "open", executed |-> TRUE]
               ELSE IF suggestion.action = "close" /\ bt_position # Flat
               THEN /\ bt_balance' = SimulateTrade("close", suggestion.side,
                                                   Abs(bt_position.currentQty),
                                                   current_price, bt_balance, bt_position)
                    /\ bt_position' = Flat
                    /\ bt_event' = [action |-> "close", executed |-> TRUE]
               ELSE /\ UNCHANGED <<bt_balance, bt_position>>
                    /\ bt_event' = [action |-> suggestion.action, executed |-> FALSE]
    /\ bt_candle' = IF bt_candle = MaxCandles THEN 0 ELSE bt_candle + 1

(***************************************************************************)
(* MultiPairManager as a state machine: the calls a trading cycle makes.   *)
(***************************************************************************)
NoCall == [op |-> "init", symbol |-> UnknownSymbol, strength |-> 0,
           pre |-> <<>>, ret |-> FALSE, boosted |-> FALSE]

RECURSIVE SumTrades(_, _)
SumTrades(states, i) ==
    IF i > NumPairs THEN 0
    ELSE states[trading_pairs[i]].total_trades + SumTrades(states, i + 1)

MPInit ==
    /\ pair_states = [p \in Pairs |-> InitPairState]
    /\ pair_balances = <<>>
    /\ mp_total = Zero
    /\ mp_strategy = None
    /\ mp_call = NoCall
    /\ mp_boosts = 0

\* allocate_balance(total_balance, allocation_strategy), once per cycle
MPAllocate ==
    \E b \in Balances, st \in Strategies :
        /\ pair_balances' = AllocateBalance(pair_states, Rat(b), st)
        /\ mp_total' = Rat(b)
        /\ mp_strategy' = st
        /\ mp_call' = [NoCall EXCEPT !.op = "allocate"]
        /\ mp_boosts' = 0
        /\ UNCHANGED pair_states

\* boost_allocation_for_signal(symbol, signal) called directly
MPBoost ==
    \E sym \in Symbols :
        /\ mp_boosts < MaxBoosts
        /\ \E r \in {BoostAllocationForSignal(pair_balances, sym)} :
               /\ pair_balances' = r.table
               /\ mp_call' = [NoCall EXCEPT !.op = "boost", !.symbol = sym,
                                            !.pre = pair_balances, !.ret = r.ret,
                                            !.boosted = TRUE]
        /\ mp_boosts' = mp_boosts + 1
        /\ UNCHANGED <<pair_states, mp_total, mp_strategy>>

\* should_trade_pair(symbol, signal)
MPShouldTrade ==
    \E sym \in Symbols, strength \in Strengths :
        /\ mp_boosts < MaxBoosts
        /\ \E r \in {ShouldTradePair(pair_balances, sym, strength)} :
               /\ pair_balances' = r.table
               /\ mp_call' = [NoCall EXCEPT !.op = "should_trade", !.symbol = sym,
                                            !.strength = strength,
                                            !.pre = pair_balances, !.ret = r.ret,
                                            !.boosted = r.boosted]
               /\ mp_boosts' = IF r.boosted THEN mp_boosts + 1 ELSE mp_boosts
        /\ UNCHANGED <<pair_states, mp_total, mp_strategy>>

\* record_trade_result(symbol, pnl)
MPRecord ==
    \E sym \in Symbols, pnl \in {-1, 0, 1} :
        /\ SumTrades(pair_states, 1) < MaxTrades
        /\ pair_states' = RecordTradeResult(pair_states, sym, pnl)
        /\ mp_call' = [NoCall EXCEPT !.op = "record"]
        /\ UNCHANGED <<pair_balances, mp_boosts, mp_total, mp_strategy>>

\* demo_best_pair_selection: the histories the demo records, with the empty one
\* and a single win; <<wins, losses>>
Histories == {<<0, 0>>, <<1, 0>>, <<8, 2>>, <<9, 1>>, <<5, 5>>}

\* the counters record_trade_result leaves after wins and losses
PairStateOf(h) ==
    [total_trades |-> h[1] + h[2], winning_trades |-> h[1], losing_trades |-> h[2]]

\* a manager on which record_trade_result has already been called
MPInitHistory ==
    /\ pair_states \in [Pairs -> {PairStateOf(h) : h \in Histories}]
    /\ pair_balances = <<>>
    /\ mp_total = Zero
    /\ mp_strategy = None
    /\ mp_call = NoCall
    /\ mp_boosts = 0

\* record_trade_result(symbol, pnl) on a manager with history
MPRecordTrade ==
    \E sym \in Symbols, pnl \in {-1, 0, 1} :
        /\ sym \in Pairs => pair_states[sym].total_trades < MaxHistory
        /\ pair_states' = RecordTradeResult(pair_states, sym, pnl)
        /\ mp_call' = [NoCall EXCEPT !.op = "record", !.symbol = sym]
        /\ UNCHANGED <<pair_balances, mp_boosts, mp_total, mp_strategy>>

\* get_best_pair(); the symbol field holds the returned pair, NoPair for None
MPGetBestPair ==
    /\ mp_call' = [NoCall EXCEPT !.op = "get_best_pair",
                                 !.symbol = GetBestPair(pair_states)]
    /\ UNCHANGED <<pair_states, pair_balances, mp_boosts, mp_total, mp_strategy>>

(***************************************************************************)
(* XRPHedgeBot.run_cycle (bot.py) in multi-pair mode: the MultiPairManager  *)
(* allocates the balance and gates every pair; funding strategy enabled,   *)
(* diversifier, dynamic_leverage and telegram None.                        *)
(***************************************************************************)
\* get_account_balance()
MCBalances == {Rat(100)}
\* the balances read while ALLOCATION_STRATEGY is 'best'
MCBestBalances == {Rat(1), Rat(5), Rat(10), Rat(50), Rat(100), Rat(300)}
\* market_data['price']
MCPrices == {Rat(100), Rat(109)}

\* __init__: nothing held, the strategy at Config.LEVERAGE
MCIdle ==
    /\ pair_position = [p \in Pairs |-> Flat]
    /\ strategy_leverage = leverage

\* no instance has evaluated anything
OwnIdle ==
    /\ own_high = [p \in Pairs |-> NoPrice]
    /\ own_low = [p \in Pairs |-> NoPrice]
    /\ own_action = "start"

NextPair(pc) == IF pc = NumPairs THEN 0 ELSE pc + 1

\* lines 629-636: abs(currentQty) * avgEntryPrice summed over the positions held
RECURSIVE PairPositionsValue(_, _)
PairPositionsValue(positions, i) ==
    IF i > NumPairs THEN Zero
    ELSE IF positions[trading_pairs[i]].currentQty = 0 THEN PairPositionsValue(positions, i + 1)
    ELSE RAdd(RMul(Rat(Abs(positions[trading_pairs[i]].currentQty)),
                   positions[trading_pairs[i]].avgEntryPrice),
              PairPositionsValue(positions, i + 1))

\* lines 623-666: suggestion 'open' on a pair whose allocation is pair_balance
PairOpen(pair_balance, held, price, suggestion, size, order_ok) ==
    LET position_value == RDiv(RMul(Rat(size), price), Rat(leverage))
        kept == [losses |-> recent_losses, held |-> held,
                 high |-> suggestion.high, low |-> suggestion.low]
    IN  IF ~RGt(pair_balance, Zero) THEN kept @@ [outcome |-> "none"]
        ELSE IF size <= 0 THEN kept @@ [outcome |-> "zero_size"]
        ELSE IF ~TradeAllowed(bot_balance, position_value, recent_losses)
        THEN kept @@ [outcome |-> "blocked"]
        ELSE IF ~order_ok THEN kept @@ [outcome |-> "failed"]
        ELSE [losses |-> 0, held |-> AfterOrder(held, suggestion.side, size, price),
              high |-> NoPrice, low |-> NoPrice, outcome |-> "placed"]

\* run_cycle, lines 545-566 under Config.ALLOCATION_STRATEGY = st: read the
\* balance, allocate it, start the loop
MCStartCycleWith(st, balances) ==
    /\ bot_pc = 0
    /\ \E balance \in balances :
        /\ pair_balances' = AllocateBalance(pair_states, balance, st)
        /\ mp_total' = balance
        /\ bot_balance' = balance
    /\ mp_strategy' = st
    /\ mp_call' = [NoCall EXCEPT !.op = "allocate"]
    /\ mp_boosts' = 0
    /\ bot_pc' = 1
    /\ bot_event' = BotNoEvent
    /\ UNCHANGED <<pair_states, recent_losses, exchange_position, pair_position,
                   strategy_leverage, highest_price_long, lowest_price_short>>

\* ALLOCATION_STRATEGY left at its default for several pairs
MCStartBest == MCStartCycleWith("best", MCBestBalances)
\* ALLOCATION_STRATEGY=equal
MCStartEqual == MCStartCycleWith("equal", MCBalances)
\* ALLOCATION_STRATEGY=weighted
MCStartWeighted == MCStartCycleWith("weighted", MCBalances)

\* run_cycle, lines 578-582: no market data for the pair, skip it
MCSkipPair ==
    /\ bot_pc > 0
    /\ bot_pc' = NextPair(bot_pc)
    /\ bot_balance' = IF NextPair(bot_pc) = 0 THEN Zero ELSE bot_balance
    /\ bot_event' = [BotNoEvent EXCEPT !.action = "skip"]
    /\ UNCHANGED <<mpVars, recent_losses, exchange_position, pair_position,
                   strategy_leverage, highest_price_long, lowest_price_short>>

\* run_cycle, lines 569-698: one pass of the loop for a pair with market data;
\* a False from should_trade_pair ends the pass before suggest_action
MCPassWith(price, signal, volatility, win_rate, order_ok) ==
    /\ bot_pc > 0
    /\  \E symbol \in {trading_pairs[bot_pc]} :
        \E held \in {pair_position[symbol]} :
        \E position \in {PositionAt(held, price)} :
        \E gate \in {ShouldTradePair(pair_balances, symbol, signal.strength)} :
        \E pair_balance \in {Get(gate.table, symbol, Zero)} :
        \E suggestion \in
            {IF gate.ret
             THEN SuggestAction([action |-> signal.action, strength |-> signal.strength,
                                 current_price |-> price],
                                position, pair_balance, highest_price_long,
                                lowest_price_short)
             ELSE [action |-> "not_traded", side |-> None, reason |-> <<>>,
                   confidence |-> 0, high |-> highest_price_long,
                   low |-> lowest_price_short]} :
        \E size \in
            {IF suggestion.action = "open" /\ RGt(pair_balance, Zero)
             THEN StrategyPositionSize(pair_balance, price, volatility, win_rate,
                                       recent_losses, signal.strength,
                                       PairPositionsValue(pair_position, 1))
             ELSE 0} :
        \E done \in
            {CASE suggestion.action = "open" ->
                    PairOpen(pair_balance, held, price, suggestion, size, order_ok)
               [] suggestion.action = "close" ->
                    BotClose(held, price, suggestion, order_ok)
               [] suggestion.action = "hedge" ->
                    BotHedge(held, price, suggestion, order_ok)
               [] OTHER ->
                    [losses |-> recent_losses, held |-> held, high |-> suggestion.high,
                     low |-> suggestion.low, outcome |-> "none"]} :
        \E recorded \in {suggestion.action = "close" /\ done.outcome = "placed"} :
            /\ done.losses <= MaxLosses
            /\ recorded => SumTrades(pair_states, 1) < MaxTrades
            /\ recent_losses' = done.losses
            /\ pair_position' = [pair_position EXCEPT ![symbol] = done.held]
            /\ highest_price_long' = done.high
            /\ lowest_price_short' = done.low
            /\ pair_balances' = gate.table
            /\ mp_call' = [NoCall EXCEPT !.op = "should_trade", !.symbol = symbol,
                                         !.strength = signal.strength,
                                         !.pre = pair_balances, !.ret = gate.ret,
                                         !.boosted = gate.boosted]
            /\ mp_boosts' = IF gate.boosted THEN mp_boosts + 1 ELSE mp_boosts
            /\ pair_states' =
                  IF recorded
                  THEN RecordTradeResult(pair_states, symbol,
                                         IF RGt(position.unrealisedPnl, Zero) THEN 1 ELSE -1)
                  ELSE pair_states
            /\ bot_event' = [action |-> suggestion.action, outcome |-> done.outcome,
                             win |-> recorded /\ RGt(position.unrealisedPnl, Zero),
                             price |-> IF suggestion.action = "open"
                                          /\ done.outcome # "none"
                                       THEN price ELSE NoPrice]
    /\ bot_pc' = NextPair(bot_pc)
    /\ bot_balance' = IF NextPair(bot_pc) = 0 THEN Zero ELSE bot_balance
    /\ UNCHANGED <<mp_total, mp_strategy, exchange_position, strategy_leverage>>

MCProcessPair ==
    \E price \in MCPrices, signal \in BotSignals, volatility \in BotVolatilities,
       win_rate \in BotWinRates, order_ok \in BOOLEAN :
        MCPassWith(price, signal, volatility, win_rate, order_ok)

\* the same pass seen by the pair's own instance: suggest_action is reached under
\* the same gate, reads and writes that instance's marks, and reset_tracking
\* follows the open or close run_cycle executed for the pair
OwnPassWith(price, signal) ==
    \E symbol \in {trading_pairs[bot_pc]} :
    \E gate \in {ShouldTradePair(pair_balances, symbol, signal.strength)} :
    \E suggestion \in
        {IF gate.ret
         THEN SuggestAction([action |-> signal.action, strength |-> signal.strength,
                             current_price |-> price],
                            PositionAt(pair_position[symbol], price),
                            Get(gate.table, symbol, Zero),
                            own_high[symbol], own_low[symbol])
         ELSE [action |-> "not_traded", high |-> own_high[symbol],
               low |-> own_low[symbol]]} :
    \E reset \in {bot_event'.action \in {"open", "close"} /\ bot_event'.outcome = "placed"} :
        /\ own_action' = suggestion.action
        /\ own_high' = [own_high EXCEPT ![symbol] = IF reset THEN NoPrice ELSE suggestion.high]
        /\ own_low' = [own_low EXCEPT ![symbol] = IF reset THEN NoPrice ELSE suggestion.low]

\* the signals of the passes compared: a strong buy and a weak hold, so that every
\* position is a long
OwnSignals == {sg \in BotSignals : sg.action \in {"buy", "hold"}}

\* a pass of the loop whose order the exchange accepts, with the pair's own
\* instance following it
MCProcessPairOwn ==
    \E price \in MCPrices, signal \in OwnSignals, volatility \in BotVolatilities,
       win_rate \in BotWinRates, order_ok \in {TRUE} :
        /\ MCPassWith(price, signal, volatility, win_rate, order_ok)
        /\ OwnPassWith(price, signal)

(***************************************************************************)
(* DynamicLeverage, dynamic_leverage.py                                    *)
(***************************************************************************)
RAbs(x) == <<Abs(x[1]), x[2]>>

\* calculate_market_condition_score
CalculateMarketConditionScore(signal) ==
    LET strength == Percent(signal.strength)
        rsi == signal.indicators.rsi
        macd_histogram == signal.indicators.macd_histogram
        trend_score ==
            IF (rsi < 30 \/ rsi > 70) /\ RGt(RAbs(macd_histogram), Tenth) THEN <<4, 5>>
            ELSE IF (rsi < 40 \/ rsi > 60) /\ RGt(RAbs(macd_histogram), <<1, 20>>) THEN <<3, 5>>
            ELSE <<2, 5>>
    IN  RAdd(RMul(<<3, 5>>, strength), RMul(<<2, 5>>, trend_score))

\* DynamicLeverage.calculate_risk_score
LeverageRiskScore(balance, position_value, win_rate, recent_losses_) ==
    LET position_score ==
            IF RGt(balance, Zero)
            THEN RMax(Zero, RSub(Rat(1), RDiv(position_value, balance)))
            ELSE Zero
        win_score == RDiv(win_rate, Rat(100))
        loss_penalty == RMax(Zero, RSub(Rat(1), RMul(Rat(recent_losses_), <<3, 20>>)))
    IN  RAdd(RAdd(RMul(<<2, 5>>, position_score), RMul(<<3, 10>>, win_score)),
             RMul(<<3, 10>>, loss_penalty))

\* int(np.round(x)): to the nearest integer, halves to the even neighbour
RoundHalfEven(x) ==
    LET q == x[1] \div x[2]
        r == x[1] % x[2]
    IN  IF 2 * r < x[2] THEN q
        ELSE IF 2 * r > x[2] THEN q + 1
        ELSE IF q % 2 = 0 THEN q ELSE q + 1

Clamp_UpperOnly(config, adjusted) ==
    IF config.max_leverage < adjusted THEN config.max_leverage ELSE adjusted

\* max(self.min_leverage, min(self.max_leverage, adjusted))
Clamp(config, adjusted) ==
    LET upper == IF adjusted < config.max_leverage THEN adjusted ELSE config.max_leverage
    IN  IF upper > config.min_leverage THEN upper ELSE config.min_leverage

\* adjust_leverage: the value it stores and returns; volatility_score is what
\* calculate_volatility_score(klines_data) gave
AdjustLeverage(config, volatility_score, signal, balance, position_value, win_rate, recent_losses_) ==
    LET condition_score == CalculateMarketConditionScore(signal)
        risk_score == LeverageRiskScore(balance, position_value, win_rate, recent_losses_)
        volatility_multiplier == RSub(Rat(1), RMul(volatility_score, <<1, 2>>))
        condition_multiplier == RAdd(<<1, 2>>, RMul(condition_score, <<1, 2>>))
        risk_multiplier == RAdd(<<1, 2>>, RMul(risk_score, <<1, 2>>))
        adjusted == RMul(RMul(RMul(Rat(config.base_leverage), volatility_multiplier),
                              condition_multiplier), risk_multiplier)
    IN  Clamp(config, RoundHalfEven(adjusted))

\* the constructor's arguments: Config's defaults (LEVERAGE 11, MIN_LEVERAGE 5,
\* MAX_LEVERAGE 20), the class's own defaults, a base at the low end, one inside,
\* one at the high end and a base above the range
DLConfigs ==
    {[base_leverage |-> b[1], min_leverage |-> b[2], max_leverage |-> b[3]] :
        b \in {<<11, 5, 20>>, <<11, 1, 20>>, <<5, 5, 10>>, <<8, 2, 12>>,
               <<20, 1, 20>>, <<30, 5, 20>>}}

\* calculate_volatility_score(klines_data): 0.5 with fewer candles than the
\* lookback, else min(std / 0.1, 1.0) of the closes' returns: 0 for flat closes,
\* 0.3 and the cap 1.0
DLVolatilityScores == {Zero, <<3, 10>>, <<1, 2>>, Rat(1)}

DLSignals ==
    {[strength |-> st, indicators |-> [rsi |-> ind[1], macd_histogram |-> ind[2]]] :
        st \in {0, 60, 100},
        ind \in {<<25, <<1, 5>>>>, <<65, <<-3, 50>>>>, <<50, Zero>>, <<25, Zero>>}}

DLBalances == {Rat(0), Rat(100)}
DLPositionValues == {Rat(0), Rat(200)}
DLWinRates == {Rat(0), Rat(100)}
DLLosses == {0, 7}

DLNoCall == [op |-> "init", ret |-> 0, last |-> 0]

\* bot.py's DynamicLeverage(Config.LEVERAGE, Config.MIN_LEVERAGE, Config.MAX_LEVERAGE)
\* before any call
DLIdle ==
    /\ dl_config = [base_leverage |-> 11, min_leverage |-> 5, max_leverage |-> 20]
    /\ current_leverage = dl_config.base_leverage
    /\ dl_call = DLNoCall

\* __init__
DLInit ==
    /\ dl_config \in DLConfigs
    /\ current_leverage = dl_config.base_leverage
    /\ dl_call = DLNoCall

\* adjust_leverage(klines_data, signal, balance, position_value, win_rate, recent_losses)
DLAdjustLeverage ==
    \E volatility_score \in DLVolatilityScores, signal \in DLSignals, balance \in DLBalances,
       position_value \in DLPositionValues, win_rate \in DLWinRates,
       recent_losses_ \in DLLosses :
        \E adjusted \in {AdjustLeverage(dl_config, volatility_score, signal, balance,
                                         position_value, win_rate, recent_losses_)} :
            /\ current_leverage' = adjusted
            /\ dl_call' = [op |-> "adjust_leverage", ret |-> adjusted, last |-> adjusted]
            /\ UNCHANGED dl_config

\* reset_to_base()
DLResetToBase ==
    /\ current_leverage' = dl_config.base_leverage
    /\ dl_call' = [op |-> "reset_to_base", ret |-> 0, last |-> 0]
    /\ UNCHANGED dl_config

\* get_current_leverage()
DLGetCurrentLeverage ==
    /\ dl_call' = [dl_call EXCEPT !.op = "get_current_leverage", !.ret = current_leverage]
    /\ UNCHANGED <<dl_config, current_leverage>>

(***************************************************************************)
(* bot.py on one pair with dynamic leverage enabled (Config's default:     *)
(* MIN_LEVERAGE 5 and MAX_LEVERAGE 20 differ from LEVERAGE 11).            *)
(***************************************************************************)
\* analyze_market's signal: action, strength and the indicators adjust_leverage reads
DynSignals ==
    {[action |-> a[1], strength |-> a[2],
      indicators |-> [rsi |-> a[3], macd_histogram |-> a[4]]] :
        a \in {<<"buy", 60, 25, <<1, 5>>>>, <<"buy", 100, 25, <<1, 5>>>>,
               <<"sell", 60, 65, <<-3, 50>>>>, <<"hold", 50, 50, Zero>>}}

\* calculate_volatility_score(market_data['klines']): flat closes, and the cap
DynVolatilityScores == {Zero, Rat(1)}

\* run_cycle, lines 623-666, with self.strategy.leverage as it is when the pass
\* begins: the size was computed at it, position_value divides by it
DynOpen(held, price, suggestion, size, order_ok) ==
    LET position_value == RDiv(RMul(Rat(size), price), Rat(strategy_leverage))
        kept == [losses |-> recent_losses, held |-> held,
                 high |-> suggestion.high, low |-> suggestion.low]
    IN  IF ~RGt(bot_balance, Zero) THEN kept @@ [outcome |-> "none"]
        ELSE IF size <= 0 THEN kept @@ [outcome |-> "zero_size"]
        ELSE IF ~TradeAllowed(bot_balance, position_value, recent_losses)
        THEN kept @@ [outcome |-> "blocked"]
        ELSE IF ~order_ok THEN kept @@ [outcome |-> "failed"]
        ELSE [losses |-> 0, held |-> AfterOrder(held, suggestion.side, size, price),
              high |-> NoPrice, low |-> NoPrice, outcome |-> "placed"]

\* execute_trade, lines 405-430: the leverage adjust_leverage returns for an order
\* of `size` contracts; position_value divides by self.strategy.leverage as it is
\* on entry
ExecuteTradeLeverage(signal, volatility_score, size, price, win_rate) ==
    AdjustLeverage(dl_config, volatility_score, signal, bot_balance,
                   RDiv(RMul(Rat(size), price), Rat(strategy_leverage)),
                   win_rate, recent_losses)

\* run_cycle, lines 569-698, and execute_trade, lines 382-450: the pass of the
\* loop for the only pair.  Whenever execute_trade is called (outcome placed or
\* failed) it first stores adjust_leverage's value in self.strategy.leverage and
\* then calls place_order(leverage=self.strategy.leverage)
DynProcessOnlyPair ==
    /\ bot_pc = 1
    /\ \E price \in MCPrices, signal \in DynSignals, volatility \in BotVolatilities,
          volatility_score \in DynVolatilityScores, win_rate \in BotWinRates,
          order_ok \in BOOLEAN :
        \E held \in {exchange_position[1]} :
        \E position \in {PositionAt(held, price)} :
        \E suggestion \in
            {SuggestAction([action |-> signal.action, strength |-> signal.strength,
                            current_price |-> price],
                           position, bot_balance, highest_price_long, lowest_price_short)} :
        \E size \in
            {IF suggestion.action = "open" /\ RGt(bot_balance, Zero)
             THEN CalculatePositionSize(bot_balance, price, strategy_leverage, volatility,
                                        win_rate, recent_losses, signal.strength,
                                        ExistingPositionsValue(exchange_position, 1))
             ELSE 0} :
        \E done \in
            {CASE suggestion.action = "open" ->
                    DynOpen(held, price, suggestion, size, order_ok)
               [] suggestion.action = "close" ->
                    BotClose(held, price, suggestion, order_ok)
               [] suggestion.action = "hedge" ->
                    BotHedge(held, price, suggestion, order_ok)
               [] OTHER ->
                    [losses |-> recent_losses, held |-> held, high |-> suggestion.high,
                     low |-> suggestion.low, outcome |-> "none"]} :
        \E order_size \in
            {CASE suggestion.action = "open" -> size
               [] suggestion.action = "hedge" -> CalculateHedgeSize(held.currentQty)
               [] OTHER -> Abs(held.currentQty)} :
        \E adjusted \in
            {IF done.outcome \in {"placed", "failed"}
             THEN ExecuteTradeLeverage(signal, volatility_score, order_size, price, win_rate)
             ELSE 0} :
            /\ done.losses <= MaxLosses
            /\ recent_losses' = done.losses
            /\ exchange_position' = [exchange_position EXCEPT ![1] = done.held]
            /\ highest_price_long' = done.high
            /\ lowest_price_short' = done.low
            /\ bot_event' = [action |-> suggestion.action, outcome |-> done.outcome,
                             win |-> /\ suggestion.action = "close"
                                     /\ done.outcome = "placed"
                                     /\ RGt(position.unrealisedPnl, Zero),
                             price |-> IF suggestion.action = "open"
                                          /\ done.outcome # "none"
                                       THEN price ELSE NoPrice]
            /\ IF adjusted # 0
               THEN /\ strategy_leverage' = adjusted
                    /\ current_leverage' = adjusted
                    /\ dl_call' = [op |-> "adjust_leverage", ret |-> adjusted,
                                   last |-> adjusted]
               ELSE UNCHANGED <<strategy_leverage, current_leverage, dl_call>>
    /\ bot_pc' = 0
    /\ bot_balance' = Zero
    /\ UNCHANGED <<dl_config, pair_position>>

(***************************************************************************)
(* The threads of the bot and the allocation table.  boost_allocation_for_ *)
(* signal is taken one loop iteration at a time, so that what another      *)
(* thread does between two iterations is part of the behaviour.            *)
(***************************************************************************)
Threads == {"main", "dashboard"}
NoFrame == [pc |-> "none"]
ThIdle ==
    /\ th_frame = [t \in Threads |-> NoFrame]
    /\ th_step = [thread |-> None, op |-> "init"]
    /\ running = FALSE

\* the executions of boost_allocation_for_signal in progress
BoostsInProgress == Cardinality({t \in Threads : th_frame[t] # NoFrame})

\* multi_pair.py lines 249-270: thread t enters boost_allocation_for_signal(symbol)
BoostEnter(t, symbol) ==
    /\ th_frame[t] = NoFrame
    /\ mp_boosts < MaxBoosts
    /\ LET total_allocated == SumValues(pair_balances)
           target_amount == TargetAmount(total_allocated)
           current_amount == Get(pair_balances, symbol, Zero)
       IN  th_frame' = [th_frame EXCEPT ![t] =
               [pc |-> IF RLeq(total_allocated, Zero) THEN "return_false"
                       ELSE IF RGeq(current_amount, target_amount) THEN "return_true"
                       ELSE "loop",
                symbol |-> symbol,
                total_allocated |-> total_allocated,
                current_amount |-> current_amount,
                needed_amount |-> RSub(target_amount, current_amount),
                sorted_pairs |-> SortDescending(SelectSeq(pair_balances,
                                                          LAMBDA e : e.k # symbol)),
                i |-> 1,
                redistributed |-> Zero]]
    /\ mp_call' = [NoCall EXCEPT !.op = "boost", !.symbol = symbol,
                                 !.pre = pair_balances, !.boosted = TRUE]
    /\ mp_boosts' = mp_boosts + 1
    /\ th_step' = [thread |-> t, op |-> "boost_enter"]
    /\ UNCHANGED <<pair_states, pair_balances, mp_total, mp_strategy, running>>

\* multi_pair.py lines 272-286: one iteration of the loop over the donors
BoostIterate(t) ==
    LET f == th_frame[t]
    IN  /\ f.pc = "loop"
        /\ IF f.i > Len(f.sorted_pairs) \/ RGeq(f.redistributed, f.needed_amount)
           THEN /\ th_frame' = [th_frame EXCEPT ![t].pc = "finish"]
                /\ UNCHANGED pair_balances
           ELSE LET pair == f.sorted_pairs[f.i].k
                    to_take == ToTake(f.sorted_pairs[f.i].v, f.total_allocated,
                                      RSub(f.needed_amount, f.redistributed))
                IN  IF RGt(to_take, Zero)
                    THEN /\ pair_balances' =
                                Put(pair_balances, pair,
                                    RSub(Get(pair_balances, pair, Zero), to_take))
                         /\ th_frame' = [th_frame EXCEPT
                                ![t].i = f.i + 1,
                                ![t].redistributed = RAdd(f.redistributed, to_take)]
                    ELSE /\ th_frame' = [th_frame EXCEPT ![t].i = f.i + 1]
                         /\ UNCHANGED pair_balances
        /\ th_step' = [thread |-> t, op |-> "boost_iterate"]
        /\ UNCHANGED <<pair_states, mp_total, mp_strategy, mp_call, mp_boosts, running>>

\* multi_pair.py lines 253, 259 and 288-296: the call returns
BoostExit(t) ==
    LET f == th_frame[t]
    IN  /\ f.pc \in {"return_false", "return_true", "finish"}
        /\ IF f.pc = "finish"
           THEN /\ pair_balances' = Put(pair_balances, f.symbol,
                                        RecipientAmount(f.current_amount, f.redistributed))
                /\ mp_call' = [mp_call EXCEPT !.ret = RGt(f.redistributed, Zero)]
           ELSE /\ mp_call' = [mp_call EXCEPT !.ret = (f.pc = "return_true")]
                /\ UNCHANGED pair_balances
        /\ th_frame' = [th_frame EXCEPT ![t] = NoFrame]
        /\ th_step' = [thread |-> t, op |-> "boost_return"]
        /\ UNCHANGED <<pair_states, mp_total, mp_strategy, mp_boosts, running>>

\* bot.py line 559: run_cycle, on the main thread, allocates once per cycle
MainAllocate ==
    /\ th_frame["main"] = NoFrame
    /\ MPAllocate
    /\ th_step' = [thread |-> "main", op |-> "allocate_balance"]
    /\ UNCHANGED <<th_frame, running>>

\* bot.py line 593, multi_pair.py lines 209-213: run_cycle asks should_trade_pair
\* about a pair with a strong signal and an allocation of at most 1
MainShouldTradeBoost ==
    \E symbol \in Pairs :
        /\ RLeq(Get(pair_balances, symbol, Zero), Rat(1))
        /\ BoostEnter("main", symbol)

\* the main thread goes on inside the call it is executing
MainBoostStep == BoostIterate("main") \/ BoostExit("main")

\* a request handler of the dashboard thread: it reads the bot's fields
DashRead(route) ==
    /\ th_step' = [thread |-> "dashboard", op |-> route]
    /\ UNCHANGED <<mpVars, th_frame, running>>

\* a /api/status handler that asks the manager for a new allocation
DashGetStatus_Rebalance ==
    /\ MPAllocate
    /\ th_step' = [thread |-> "dashboard", op |-> "get_status"]
    /\ UNCHANGED <<th_frame, running>>

\* web_dashboard.py lines 34-50: /api/status
DashGetStatus == DashRead("get_status")
\* web_dashboard.py lines 66-84: /api/positions
DashGetPositions == DashRead("get_positions")
\* web_dashboard.py lines 86-107: /health
DashHealthCheck == DashRead("health_check")

\* bot.py lines 741-742: run() raises the flag and enters its loop
RunEnter ==
    /\ th_step.op = "init"
    /\ running' = TRUE
    /\ th_frame' = [th_frame EXCEPT !["main"] = [pc |-> "while"]]
    /\ th_step' = [thread |-> "main", op |-> "run"]
    /\ UNCHANGED <<botVars, highest_price_long, lowest_price_short>>

\* bot.py lines 746-747: `while self.running:` passes and run_cycle() begins
RunStartCycle ==
    /\ th_frame["main"] = [pc |-> "while"]
    /\ running
    /\ BotStartCycle
    /\ th_frame' = [th_frame EXCEPT !["main"] = [pc |-> "cycle"]]
    /\ th_step' = [thread |-> "main", op |-> "start_cycle"]
    /\ UNCHANGED running

\* bot.py lines 569-698: run_cycle evaluates the next pair
RunPass ==
    /\ th_frame["main"] = [pc |-> "cycle"]
    /\ bot_pc > 0
    /\ (BotSkipPair \/ BotProcessPair)
    /\ th_frame' = [th_frame EXCEPT !["main"] =
                        [pc |-> IF bot_pc' = 0 THEN "sleep" ELSE "cycle"]]
    /\ th_step' = [thread |-> "main", op |-> "pass"]
    /\ UNCHANGED running

\* bot.py lines 749-750: time.sleep(interval), then back to the while test
RunSleep ==
    /\ th_frame["main"] = [pc |-> "sleep"]
    /\ th_frame' = [th_frame EXCEPT !["main"] = [pc |-> "while"]]
    /\ th_step' = [thread |-> "main", op |-> "sleep"]
    /\ UNCHANGED <<running, botVars, highest_price_long, lowest_price_short>>

\* bot.py line 746: the while test fails and run() goes to its finally block
RunExit ==
    /\ th_frame["main"] = [pc |-> "while"]
    /\ ~running
    /\ th_frame' = [th_frame EXCEPT !["main"] = NoFrame]
    /\ th_step' = [thread |-> "main", op |-> "run_exit"]
    /\ UNCHANGED <<running, botVars, highest_price_long, lowest_price_short>>

\* bot.py lines 781-784: stop(), called from another thread while run() is in
\* its loop
Stop ==
    /\ th_frame["main"] # NoFrame
    /\ running
    /\ running' = FALSE
    /\ th_step' = [thread |-> "other", op |-> "stop"]
    /\ UNCHANGED <<th_frame, botVars, highest_price_long, lowest_price_short>>

(***************************************************************************)
(* execute_trade of bot.py, and the count of what one cycle does per pair. *)
(***************************************************************************)
\* an input check that accepts any side
ValidTradeInputs_AnySide(size, side) == size > 0

\* execute_trade, lines 394-401: both input checks passed
ValidTradeInputs(size, side) == size > 0 /\ side \in {"buy", "sell"}

\* execute_trade, lines 393-469 without dynamic leverage: what it returns and how
\* often it called client.place_order; order_ok is FALSE when place_order raises
ExecuteTrade(size, side, order_ok) ==
    IF ~ValidTradeInputs(size, side) THEN [ret |-> FALSE, placed |-> 0]
    ELSE [ret |-> order_ok, placed |-> 1]

ETSizes == {-1, 0, 1, 5}
ETSides == {"buy", "sell", None, "long"}
ETNoCall == [op |-> "init", size |-> 0, side |-> None, order_ok |-> FALSE,
             ret |-> FALSE, placed |-> 0]
NoPasses == [i \in 1..Len(BotSymbols) |-> 0]
ExIdle ==
    /\ evaluations = NoPasses
    /\ orders_attempted = NoPasses
    /\ et_call = ETNoCall

\* execute_trade called directly, between two cycles
ETExecuteTrade ==
    /\ bot_pc = 0
    /\ \E size \in ETSizes, side \in ETSides, order_ok \in BOOLEAN :
          \E r \in {ExecuteTrade(size, side, order_ok)} :
              et_call' = [op |-> "execute_trade", size |-> size, side |-> side,
                          order_ok |-> order_ok, ret |-> r.ret, placed |-> r.placed]
    /\ UNCHANGED <<evaluations, orders_attempted, botVars, highest_price_long, lowest_price_short>>

\* the client.place_order calls of a pass: the one execute_trade call of the
\* branch taken (lines 659, 673 or 697) got as far as line 432
PlaceOrderCalls(event) == IF event.outcome \in {"placed", "failed"} THEN 1 ELSE 0

\* run_cycle begins: nothing evaluated, nothing ordered yet
CountedStartCycle ==
    /\ BotStartCycle
    /\ evaluations' = NoPasses
    /\ orders_attempted' = NoPasses
    /\ et_call' = ETNoCall

\* one pass of the loop over the pairs, counted
CountedPass ==
    /\ bot_pc > 0
    /\ evaluations[bot_pc] < MaxCounted
    /\ (BotSkipPair \/ BotProcessPair \/ BotAnalyzeRaises)
    /\ evaluations' = [evaluations EXCEPT ![bot_pc] = @ + 1]
    /\ orders_attempted' = [orders_attempted EXCEPT ![bot_pc] = @ + PlaceOrderCalls(bot_event')]
    /\ UNCHANGED et_call

vars == <<mpVars, fsVars, hsVars, botVars, btVars, dlVars, mcVars, ownVars, statVars, thVars, exVars>>

AllocNext == (MPAllocate \/ MPBoost \/ MPRecord) /\ UNCHANGED <<fsVars, hsVars, botVars, btVars, dlVars, mcVars, ownVars, statVars, thVars, exVars>>

\* The capital allocator driven through allocate_balance, record_trade_result and
\* direct boost_allocation_for_signal calls
InitAlloc == MPInit /\ fs_call = FSIdle /\ HSInit /\ BotInit /\ BTInit /\ DLIdle /\ MCIdle /\ OwnIdle /\ StatsIdle /\ ThIdle /\ ExIdle

SpecAlloc == InitAlloc /\ [][AllocNext]_vars

PairsNext == (MPAllocate \/ MPShouldTrade \/ MPRecord) /\ UNCHANGED <<fsVars, hsVars, botVars, btVars, dlVars, mcVars, ownVars, statVars, thVars, exVars>>

\* The capital allocator as the trading cycle drives it: redistribution only
\* through should_trade_pair
SpecPairs == InitAlloc /\ [][PairsNext]_vars

BestNext == (MPRecordTrade \/ MPGetBestPair) /\ UNCHANGED <<fsVars, hsVars, botVars, btVars, dlVars, mcVars, ownVars, statVars, thVars, exVars>>

\* The ranking of pairs: get_best_pair after sequences of record_trade_result
InitBest == MPInitHistory /\ fs_call = FSIdle /\ HSInit /\ BotInit /\ BTInit /\ DLIdle /\ MCIdle /\ OwnIdle /\ StatsIdle /\ ThIdle /\ ExIdle

SpecBest == InitBest /\ [][BestNext]_vars

HistoryAllocNext == MPAllocate /\ UNCHANGED <<fsVars, hsVars, botVars, btVars, dlVars, mcVars, ownVars, statVars, thVars, exVars>>

\* allocate_balance on managers with recorded history
InitHistoryAlloc == MPInitHistory /\ fs_call = FSIdle /\ HSInit /\ BotInit /\ BTInit /\ DLIdle /\ MCIdle /\ OwnIdle /\ StatsIdle /\ ThIdle /\ ExIdle

SpecHistoryAlloc == InitHistoryAlloc /\ [][HistoryAllocNext]_vars

HistoryBoostNext == (MPAllocate \/ MPBoost) /\ UNCHANGED <<fsVars, hsVars, botVars, btVars, dlVars, mcVars, ownVars, statVars, thVars, exVars>>

\* boost_allocation_for_signal called directly on managers with recorded history
InitHistoryBoost == MPInitHistory /\ fs_call = FSIdle /\ HSInit /\ BotInit /\ BTInit /\ DLIdle /\ MCIdle /\ OwnIdle /\ StatsIdle /\ ThIdle /\ ExIdle

SpecHistoryBoost == InitHistoryBoost /\ [][HistoryBoostNext]_vars

ThreadsNext ==
    (MainAllocate \/ MainShouldTradeBoost \/ MainBoostStep
        \/ DashGetStatus \/ DashGetPositions \/ DashHealthCheck)
    /\ UNCHANGED <<fsVars, hsVars, botVars, btVars, dlVars, mcVars, ownVars, statVars, exVars>>

\* the main thread allocating and boosting while the dashboard thread serves
\* requests
InitThreads == MPInitHistory /\ fs_call = FSIdle /\ HSInit /\ BotInit /\ BTInit /\ DLIdle /\ MCIdle /\ OwnIdle /\ StatsIdle /\ ThIdle /\ ExIdle

SpecThreads == InitThreads /\ [][ThreadsNext]_vars

RunNext ==
    (RunEnter \/ RunStartCycle \/ RunPass \/ RunSleep \/ RunExit \/ Stop)
    /\ UNCHANGED <<mpVars, fsVars, hs_call, seen_high_long, hs_suggestion, btVars, dlVars, mcVars, ownVars, statVars, exVars>>

\* run() on the main thread, stop() called from another thread at any moment
InitRun == MPInit /\ fs_call = FSIdle /\ HSInit /\ BotInit /\ BTInit /\ DLIdle /\ MCIdle /\ OwnIdle /\ StatsIdle /\ ThIdle /\ ExIdle

SpecRun == InitRun /\ [][RunNext]_vars

CountedNext ==
    (CountedStartCycle \/ CountedPass \/ ETExecuteTrade)
    /\ UNCHANGED <<mpVars, fsVars, hs_call, seen_high_long, hs_suggestion, btVars, dlVars, mcVars, ownVars, statVars, thVars>>

\* The cycles of SpecCycle with what each does per pair counted, and
\* execute_trade called directly between cycles
InitCounted == MPInit /\ fs_call = FSIdle /\ HSInit /\ BotInit /\ BTInit /\ DLIdle /\ MCIdle /\ OwnIdle /\ StatsIdle /\ ThIdle /\ ExIdle

SpecCounted == InitCounted /\ [][CountedNext]_vars

LeverageNext ==
    (DLAdjustLeverage \/ DLResetToBase \/ DLGetCurrentLeverage) /\ UNCHANGED <<mpVars, fsVars, hsVars, botVars, btVars, mcVars, ownVars, statVars, thVars, exVars>>

\* DynamicLeverage driven through adjust_leverage, reset_to_base and
\* get_current_leverage
InitLeverage == MPInit /\ fs_call = FSIdle /\ HSInit /\ BotInit /\ BTInit /\ DLInit /\ MCIdle /\ OwnIdle /\ StatsIdle /\ ThIdle /\ ExIdle

SpecLeverage == InitLeverage /\ [][LeverageNext]_vars

FundingNext ==
    (FSShouldAllowTrade \/ FSCalculatePositionSize \/ FSCalculateRiskScore) /\ UNCHANGED <<mpVars, hsVars, botVars, btVars, dlVars, mcVars, ownVars, statVars, thVars, exVars>>

\* The funding strategy on its own
InitFunding == MPInit /\ FSInit /\ HSInit /\ BotInit /\ BTInit /\ DLIdle /\ MCIdle /\ OwnIdle /\ StatsIdle /\ ThIdle /\ ExIdle

SpecFunding == InitFunding /\ [][FundingNext]_vars

HedgeNext ==
    (HSShouldCloseLong \/ HSShouldCloseShort \/ HSResetTracking)
        /\ UNCHANGED <<mpVars, fsVars, botVars, btVars, dlVars, mcVars, ownVars, statVars, thVars, exVars>>

\* One HedgeStrategy instance called directly
InitHedge == MPInit /\ fs_call = FSIdle /\ HSInit /\ BotInit /\ BTInit /\ DLIdle /\ MCIdle /\ OwnIdle /\ StatsIdle /\ ThIdle /\ ExIdle

SpecHedge == InitHedge /\ [][HedgeNext]_vars

SuggestNext ==
    (HSSuggestAction \/ HSSuggestReset) /\ UNCHANGED <<mpVars, fsVars, botVars, btVars, dlVars, mcVars, ownVars, statVars, thVars, exVars>>

\* One HedgeStrategy instance driven through suggest_action, as the bots drive it
InitSuggest == MPInit /\ fs_call = FSIdle /\ HSInit /\ BotInit /\ BTInit /\ DLIdle /\ MCIdle /\ OwnIdle /\ StatsIdle /\ ThIdle /\ ExIdle

SpecSuggest == InitSuggest /\ [][SuggestNext]_vars

BotNext ==
    (BotStartCycle \/ BotSkipPair \/ BotProcessPair \/ ExchangeFill)
        /\ UNCHANGED <<mpVars, fsVars, hs_call, seen_high_long, hs_suggestion, btVars, dlVars, mcVars, ownVars, statVars, thVars, exVars>>

\* The live bot's trading cycles against an exchange account that can also change
\* outside the bot
InitBot == MPInit /\ fs_call = FSIdle /\ HSInit /\ BotInit /\ BTInit /\ DLIdle /\ MCIdle /\ OwnIdle /\ StatsIdle /\ ThIdle /\ ExIdle

SpecBot == InitBot /\ [][BotNext]_vars

MultiNext ==
    (MCStartEqual \/ MCSkipPair \/ MCProcessPair)
        /\ UNCHANGED <<fsVars, hs_call, seen_high_long, hs_suggestion, btVars, dlVars, ownVars, statVars, thVars, exVars>>

\* The live bot's trading cycles in multi-pair mode with ALLOCATION_STRATEGY=equal,
\* on an account only the bot trades on
InitMulti == MPInit /\ fs_call = FSIdle /\ HSInit /\ BotInit /\ BTInit /\ DLIdle /\ MCIdle /\ OwnIdle /\ StatsIdle /\ ThIdle /\ ExIdle

SpecMulti == InitMulti /\ [][MultiNext]_vars

MultiWeightedNext ==
    (MCStartWeighted \/ MCSkipPair \/ MCProcessPair)
        /\ UNCHANGED <<fsVars, hs_call, seen_high_long, hs_suggestion, btVars, dlVars, ownVars, statVars, thVars, exVars>>

\* The live bot's trading cycles in multi-pair mode with
\* ALLOCATION_STRATEGY=weighted, on an account only the bot trades on
InitMultiWeighted == MPInit /\ fs_call = FSIdle /\ HSInit /\ BotInit /\ BTInit /\ DLIdle /\ MCIdle /\ OwnIdle /\ StatsIdle /\ ThIdle /\ ExIdle

SpecMultiWeighted == InitMultiWeighted /\ [][MultiWeightedNext]_vars

SharedNext ==
    \/ (MCStartEqual \/ MCSkipPair)
            /\ UNCHANGED <<fsVars, hs_call, seen_high_long, hs_suggestion, btVars, dlVars,
                           ownVars, statVars, thVars, exVars>>
    \/ MCProcessPairOwn
            /\ UNCHANGED <<fsVars, hs_call, seen_high_long, hs_suggestion, btVars, dlVars,
                           statVars, thVars, exVars>>

\* The cycles of SpecMulti, each pass compared with what an instance of the pair's
\* own would have decided
InitShared == MPInit /\ fs_call = FSIdle /\ HSInit /\ BotInit /\ BTInit /\ DLIdle /\ MCIdle /\ OwnIdle /\ StatsIdle /\ ThIdle /\ ExIdle

SpecShared == InitShared /\ [][SharedNext]_vars

MultiBestNext ==
    (MCStartBest \/ MCSkipPair \/ MCProcessPair)
        /\ UNCHANGED <<fsVars, hs_call, seen_high_long, hs_suggestion, btVars, dlVars, ownVars, statVars, thVars, exVars>>

\* The live bot's trading cycles in multi-pair mode with the default
\* ALLOCATION_STRATEGY
InitMultiBest == MPInit /\ fs_call = FSIdle /\ HSInit /\ BotInit /\ BTInit /\ DLIdle /\ MCIdle /\ OwnIdle /\ StatsIdle /\ ThIdle /\ ExIdle

SpecMultiBest == InitMultiBest /\ [][MultiBestNext]_vars

CycleNext ==
    (BotStartCycle \/ BotSkipPair \/ BotProcessPair \/ BotAnalyzeRaises)
        /\ UNCHANGED <<mpVars, fsVars, hs_call, seen_high_long, hs_suggestion, btVars, dlVars, mcVars, ownVars, statVars, thVars, exVars>>

\* The live bot's trading cycles on an account only the bot trades on, fed candles
\* that may lack a close
InitCycle == MPInit /\ fs_call = FSIdle /\ HSInit /\ BotInit /\ BTInit /\ DLIdle /\ MCIdle /\ OwnIdle /\ StatsIdle /\ ThIdle /\ ExIdle

SpecCycle == InitCycle /\ [][CycleNext]_vars

SingleNext ==
    (BotStartCycle \/ BotSkipOnlyPair \/ BotProcessOnlyPair
        \/ LegacySkipCycle \/ LegacyRunCycle)
        /\ UNCHANGED <<mpVars, fsVars, hs_call, seen_high_long, hs_suggestion, btVars,
                       dlVars, mcVars, ownVars, statVars, thVars, exVars>>

\* One instrument on an account nothing else trades on, run by bot.py with one
\* pair or by bot_legacy.py: either program may run the next cycle, so the
\* behaviours of each program alone are among these
InitSingle == MPInit /\ fs_call = FSIdle /\ HSInit /\ BotInit /\ BTInit /\ DLIdle /\ MCIdle /\ OwnIdle /\ StatsIdle /\ ThIdle /\ ExIdle

SpecSingle == InitSingle /\ [][SingleNext]_vars

DynamicNext ==
    \/ (BotStartCycle \/ BotSkipOnlyPair)
            /\ UNCHANGED <<mpVars, fsVars, hs_call, seen_high_long, hs_suggestion, btVars,
                           dlVars, mcVars, ownVars, statVars, thVars, exVars>>
    \/ DynProcessOnlyPair
            /\ UNCHANGED <<mpVars, fsVars, hs_call, seen_high_long, hs_suggestion, btVars,
                           ownVars, statVars, thVars, exVars>>

\* bot.py on one pair with Config's default leverage range, on an account nothing
\* else trades on
InitDynamic == MPInit /\ fs_call = FSIdle /\ HSInit /\ BotInit /\ BTInit /\ DLIdle /\ MCIdle /\ OwnIdle /\ StatsIdle /\ ThIdle /\ ExIdle

SpecDynamic == InitDynamic /\ [][DynamicNext]_vars

StatsNext ==
    \/ BotStartCycle
            /\ UNCHANGED <<mpVars, fsVars, hs_call, seen_high_long, hs_suggestion, btVars,
                           dlVars, mcVars, ownVars, statVars, thVars, exVars>>
    \/ (BotSkipOnlyPairStats \/ BotProcessOnlyPairStats)
            /\ UNCHANGED <<mpVars, fsVars, hs_call, seen_high_long, hs_suggestion, btVars,
                           dlVars, mcVars, ownVars, thVars, exVars>>

\* bot.py on one pair with its trade statistics, on an account nothing else
\* trades on
InitStats == MPInit /\ fs_call = FSIdle /\ HSInit /\ BotInit /\ BTInit /\ DLIdle /\ MCIdle /\ OwnIdle /\ StatsIdle /\ ThIdle /\ ExIdle

SpecStats == InitStats /\ [][StatsNext]_vars

BacktestNext ==
    (BTStart \/ BTCandle)
        /\ UNCHANGED <<mpVars, fsVars, hs_call, seen_high_long, hs_suggestion, botVars, dlVars, mcVars, ownVars, statVars, thVars, exVars>>

\* Backtest runs on one BacktestEngine
InitBacktest == MPInit /\ fs_call = FSIdle /\ HSInit /\ BotInit /\ BTInit /\ DLIdle /\ MCIdle /\ OwnIdle /\ StatsIdle /\ ThIdle /\ ExIdle

SpecBacktest == InitBacktest /\ [][BacktestNext]_vars

(***************************************************************************)
(* Claims about the capital allocator.                                     *)
(***************************************************************************)
LastBoostCall == mp_call.op = "boost"
\* the pair_balances entries of a boost call other than the recipient's
Donors(table, symbol) == Keys(table) \ {symbol}

\* C1: whatever the strategy, the pairs' history and the boosts made since, the
\* allocation table sums to the total balance handed to allocate_balance.
C1_TableSumsToBalance ==
    mp_strategy # None => SumValues(pair_balances) = mp_total

\* C2: one boost_allocation_for_signal call only transfers value: the table's sum
\* is the same before and after the call, whatever it returns, so the recipient's
\* gain equals the donors' total loss.
C2_BoostConservesSum ==
    LastBoostCall =>
        /\ SumValues(pair_balances) = SumValues(mp_call.pre)
        /\ RSub(Get(pair_balances, mp_call.symbol, Zero), Get(mp_call.pre, mp_call.symbol, Zero))
             = RSub(SumValues(SelectSeq(mp_call.pre, LAMBDA e : e.k # mp_call.symbol)),
                    SumValues(SelectSeq(pair_balances, LAMBDA e : e.k # mp_call.symbol)))

\* a boost call that returned True and raised a recipient that already held capital
C2_Witness ==
    /\ LastBoostCall /\ mp_call.ret
    /\ RGt(Get(mp_call.pre, mp_call.symbol, Zero), Zero)
    /\ RGt(Get(pair_balances, mp_call.symbol, Zero), Get(mp_call.pre, mp_call.symbol, Zero))

\* C3: in one boost call every donor that loses capital ends at no less than 10% of
\* the pre-call total and loses at most 20% of its pre-call allocation; a donor at
\* or below the 10% floor is left unchanged.
C3_DonorLimits ==
    LastBoostCall =>
        LET total == SumValues(mp_call.pre)
            floor == RMul(total, Tenth)
        IN  \A p \in Donors(mp_call.pre, mp_call.symbol) :
                LET before == Get(mp_call.pre, p, Zero)
                    after == Get(pair_balances, p, Zero)
                IN  /\ RLt(after, before) =>
                          /\ RGeq(after, floor)
                          /\ RLeq(RSub(before, after), RMul(before, Fifth))
                    /\ RLeq(before, floor) => after = before

\* a boost call in which one donor gave exactly its 20% cap, another donor gave
\* less than its cap
C3_Witness ==
    /\ LastBoostCall
    /\ \E p, q \in Donors(mp_call.pre, mp_call.symbol) :
          LET bp == Get(mp_call.pre, p, Zero)
              bq == Get(mp_call.pre, q, Zero)
          IN  /\ RGt(bp, Zero)
              /\ RSub(bp, Get(pair_balances, p, Zero)) = RMul(bp, Fifth)
              /\ RLt(Get(pair_balances, q, Zero), bq)
              /\ RLt(RSub(bq, Get(pair_balances, q, Zero)), RMul(bq, Fifth))

(***************************************************************************)
(* Claims about the funding strategy.                                      *)
(***************************************************************************)
\* C4: should_allow_trade returns (False, reason) whenever recent_losses >= 5,
\* whatever available_balance and position_value are.
C4_CircuitBreakerBlocks ==
    (fs_call.op = "should_allow_trade" /\ fs_call.done /\ fs_call.recent_losses >= 5)
        => ~fs_call.result.allow

\* a call with exactly 5 losses and an affordable position, refused by the breaker
C4_Witness ==
    /\ fs_call.op = "should_allow_trade" /\ fs_call.done
    /\ fs_call.recent_losses = 5
    /\ RLeq(fs_call.position_value, CalculateAvailableFunds(fs_call.available_balance))
    /\ fs_call.result = [allow |-> FALSE, reason |-> "Too many recent losses"]

(***************************************************************************)
(* Claims about the hedge strategy's exit rules.                           *)
(***************************************************************************)
\* the call recorded in hs_call evaluated an open long / an open short
LongEvaluated == hs_call.op = "should_close_long" /\ hs_call.position_qty > 0
ShortEvaluated == hs_call.op = "should_close_short" /\ hs_call.position_qty < 0
\* the percentage changes of the recorded call, in the position's favour
LongChange == PercentOf(hs_call.current_price, hs_call.entry_price, hs_call.entry_price)
ShortChange == PercentOf(hs_call.entry_price, hs_call.current_price, hs_call.entry_price)
\* entry * (1 - p / 100) and entry * (1 + p / 100)
BelowEntry(entry_price, p) == RMul(entry_price, RSub(Rat(1), Percent(p)))
AboveEntry(entry_price, p) == RMul(entry_price, RAdd(Rat(1), Percent(p)))

\* C8: in every step that is not a reset_tracking, a high-water mark that is set
\* stays set and does not decrease, and a low-water mark that is set stays set and
\* does not increase.
C8_WaterMarksMonotone ==
    [][hs_call'.op # "reset_tracking" =>
        /\ highest_price_long # NoPrice =>
            /\ highest_price_long' # NoPrice
            /\ RGeq(highest_price_long', highest_price_long)
        /\ lowest_price_short # NoPrice =>
            /\ lowest_price_short' # NoPrice
            /\ RLeq(lowest_price_short', lowest_price_short)]_vars

\* a should_close_long call that raised a high-water mark already set
C8_Witness ==
    /\ LongEvaluated
    /\ hs_call.high # NoPrice
    /\ RGt(highest_price_long, hs_call.high)
    /\ ~hs_call.close

\* C9: when neither stop loss nor take profit fires for an open long,
\* should_close_long closes with a trailing stop exactly when the retracement from
\* H, the highest price the long was evaluated at since the last reset (this
\* call's price included), is at least trailing_stop_percent, and holds otherwise.
C9_TrailingStopFromHighestSeen ==
    (/\ LongEvaluated
     /\ RGt(LongChange, RNeg(Rat(stop_loss_percent)))
     /\ RLt(LongChange, Rat(take_profit_percent)))
    => LET H == RaiseHigh(hs_call.seen, hs_call.current_price)
           retracement == PercentOf(H, hs_call.current_price, H)
       IN  IF RGeq(retracement, Rat(trailing_stop_percent))
           THEN hs_call.close /\ hs_call.reason[1] = "Trailing stop triggered"
           ELSE ~hs_call.close /\ hs_call.reason = <<"Holding long position">>

\* C10: exits are tried in the order stop loss, take profit, trailing stop and the
\* reason names the first that fires: a long at or below entry * (1 - 5/100)
\* closes with "Stop loss" and the rounded change (-5.00 for 0.52 -> 0.494)
\* whatever the high-water mark is; a short does the same on (entry - price)/entry.
C10_ExitOrder ==
    /\ LongEvaluated =>
        /\ RLeq(hs_call.current_price, BelowEntry(hs_call.entry_price, stop_loss_percent))
            => /\ hs_call.close
               /\ hs_call.reason = <<"Stop loss triggered", Round2(LongChange)>>
        /\ (hs_call.entry_price = HSPrice(5200) /\ hs_call.current_price = HSPrice(4940))
            => hs_call.reason = <<"Stop loss triggered", -500>>
        /\ (/\ RGt(LongChange, RNeg(Rat(stop_loss_percent)))
            /\ RGeq(LongChange, Rat(take_profit_percent)))
            => /\ hs_call.close
               /\ hs_call.reason = <<"Take profit triggered", Round2(LongChange)>>
        /\ hs_call.reason[1] \in {"Trailing stop triggered", "Holding long position"}
            => /\ RGt(LongChange, RNeg(Rat(stop_loss_percent)))
               /\ RLt(LongChange, Rat(take_profit_percent))
    /\ ShortEvaluated =>
        /\ RGeq(hs_call.current_price, AboveEntry(hs_call.entry_price, stop_loss_percent))
            => /\ hs_call.close
               /\ hs_call.reason[1] = "Stop loss triggered"
        /\ (/\ RGt(ShortChange, RNeg(Rat(stop_loss_percent)))
            /\ RGeq(ShortChange, Rat(take_profit_percent)))
            => /\ hs_call.close
               /\ hs_call.reason = <<"Take profit triggered", Round2(ShortChange)>>
        /\ hs_call.reason[1] \in {"Trailing stop triggered", "Holding short position"}
            => /\ RGt(ShortChange, RNeg(Rat(stop_loss_percent)))
               /\ RLt(ShortChange, Rat(take_profit_percent))

\* a long at exactly -5% whose retracement from the high-water mark (0.55) is also
\* past the trailing stop: the stop loss is the reason reported
C10_Witness ==
    /\ LongEvaluated
    /\ hs_call.entry_price = HSPrice(5200)
    /\ hs_call.current_price = HSPrice(4940)
    /\ hs_call.high = HSPrice(5500)
    /\ hs_call.reason = <<"Stop loss triggered", -500>>

(***************************************************************************)
(* Claims about the trading loops.                                         *)
(***************************************************************************)
\* the step is one of run_cycle's own (the loop index moves)
BotStep == bot_pc' # bot_pc
\* the step placed a close, an open, a hedge order that the exchange accepted
ClosePlaced == bot_event.action = "close" /\ bot_event.outcome = "placed"
OpenPlaced == bot_event.action = "open" /\ bot_event.outcome = "placed"
OpenBlocked == bot_event.action = "open" /\ bot_event.outcome = "blocked"

\* C5: recent_losses changes only in a step that executes a close: such a step
\* adds exactly 1 on a losing close and sets it to 0 on a winning one; every other
\* step (open, hedge, blocked or failed trade, skipped pair) leaves it unchanged.
C5_LossesChangeOnlyOnClose ==
    [][/\ recent_losses' # recent_losses => BotStep /\ ClosePlaced'
       /\ (BotStep /\ ClosePlaced') =>
            recent_losses' = IF bot_event'.win THEN 0 ELSE recent_losses + 1]_vars

\* C6: in a step that starts with recent_losses >= 5 run_cycle places no open
\* order, while a close or hedge it decides on is still sent to the exchange; with
\* recent_losses back at 0 an open is not blocked.
C6_BreakerBlocksOpensOnly ==
    [][BotStep =>
        /\ recent_losses >= 5 =>
            /\ ~OpenPlaced'
            /\ bot_event'.action = "open" => bot_event'.outcome \in {"blocked", "zero_size"}
            /\ bot_event'.action \in {"close", "hedge"}
                => bot_event'.outcome \in {"placed", "failed"}
        /\ recent_losses = 0 => ~OpenBlocked']_vars

\* an open suggested and refused with the breaker tripped
C6_Witness ==
    /\ OpenBlocked
    /\ recent_losses >= 5
    /\ \E i \in DOMAIN BotSymbols : exchange_position[i] # Flat

\* C7: after every executed open or close, by a live bot or by the backtest loop,
\* both water marks are None, so no trailing reference of one position reaches the
\* next one.
C7_TrackingResetOnOpenAndClose ==
    /\ (OpenPlaced \/ ClosePlaced)
        => highest_price_long = NoPrice /\ lowest_price_short = NoPrice
    /\ (bt_event.executed /\ bt_event.action \in {"open", "close"})
        => highest_price_long = NoPrice /\ lowest_price_short = NoPrice

(***************************************************************************)
(* Claims about suggest_action, checked on direct calls (SpecSuggest).     *)
(***************************************************************************)
\* the call recorded in hs_suggestion
Suggested == hs_suggestion.op = "suggest_action"
SuggestedFlat ==
    /\ Suggested
    /\ RGt(hs_suggestion.available_balance, Rat(1))
    /\ hs_suggestion.current_position.currentQty = 0
\* the signal of the recorded call opposes the position of the recorded call
OpposingSignal(call) ==
    \/ call.current_position.currentQty > 0 /\ call.signal.action = "sell"
    \/ call.current_position.currentQty < 0 /\ call.signal.action = "buy"
\* an exit rule fires for the call's position, given the water marks before it
ExitFires(call, high, low) ==
    IF call.current_position.currentQty > 0
    THEN ShouldCloseLong(high, call.signal.current_price,
                         call.current_position.avgEntryPrice,
                         call.current_position.currentQty).close
    ELSE ShouldCloseShort(low, call.signal.current_price,
                          call.current_position.avgEntryPrice,
                          call.current_position.currentQty).close

\* C11: with available_balance > 1 and no position, suggest_action returns 'open'
\* with side = the signal's action and confidence = the signal's strength exactly
\* when the action is buy or sell and the strength is >= 60; in every other flat
\* case it returns 'wait'.
C11_FlatOpensOnStrongSignal ==
    SuggestedFlat =>
        IF hs_suggestion.signal.action \in {"buy", "sell"}
           /\ hs_suggestion.signal.strength >= 60
        THEN /\ hs_suggestion.result.action = "open"
             /\ hs_suggestion.result.side = hs_suggestion.signal.action
             /\ hs_suggestion.result.confidence = hs_suggestion.signal.strength
        ELSE hs_suggestion.result.action = "wait"

\* balance 100, no position, buy/75 gives open, buy, 75
C11_Witness ==
    /\ SuggestedFlat
    /\ hs_suggestion.available_balance = Rat(100)
    /\ hs_suggestion.signal.action = "buy" /\ hs_suggestion.signal.strength = 75
    /\ hs_suggestion.result = [action |-> "open", side |-> "buy", confidence |-> 75]

\* C12: a suggest_action call with available_balance <= 1 returns action 'none'
\* whatever the position and the signal, and leaves both water marks as they were.
C12_NoActionOnLowBalance ==
    [][(hs_suggestion'.op = "suggest_action"
        /\ RLeq(hs_suggestion'.available_balance, Rat(1)))
            => /\ hs_suggestion'.result.action = "none"
               /\ highest_price_long' = highest_price_long
               /\ lowest_price_short' = lowest_price_short]_vars

\* a long whose stop loss is breached, a balance of at most 1, a water mark set
C12_Witness ==
    /\ Suggested
    /\ RLeq(hs_suggestion.available_balance, Rat(1))
    /\ hs_suggestion.current_position.currentQty > 0
    /\ RLeq(hs_suggestion.signal.current_price,
            BelowEntry(hs_suggestion.current_position.avgEntryPrice, stop_loss_percent))
    /\ hs_suggestion.result.action = "none"
    /\ highest_price_long # NoPrice

\* C13: suggest_action returns 'hedge' only if no exit rule fired, the position's
\* unrealised PnL percent is < -2 and the signal is the opposing action with
\* strength >= 50, and the hedge side is then the opposing side; with an opposing
\* signal of strength 40, or with a PnL percent >= -2, it never returns 'hedge'.
C13_HedgeOnlyWhenLosing ==
    [][hs_suggestion'.op = "suggest_action" =>
        /\ hs_suggestion'.result.action = "hedge" =>
            /\ hs_suggestion'.current_position.currentQty # 0
            /\ ~ExitFires(hs_suggestion', highest_price_long, lowest_price_short)
            /\ RLt(hs_suggestion'.current_position.unrealisedPnlPcnt, Rat(-2))
            /\ OpposingSignal(hs_suggestion')
            /\ hs_suggestion'.signal.strength >= 50
            /\ hs_suggestion'.result.side = hs_suggestion'.signal.action
        /\ (\/ hs_suggestion'.signal.strength = 40
            \/ RGeq(hs_suggestion'.current_position.unrealisedPnlPcnt, Rat(-2)))
                => hs_suggestion'.result.action # "hedge"]_vars

\* a losing long hedged on a sell signal of strength 50
C13_Witness ==
    /\ Suggested
    /\ hs_suggestion.current_position.currentQty > 0
    /\ hs_suggestion.signal.action = "sell" /\ hs_suggestion.signal.strength = 50
    /\ hs_suggestion.result.action = "hedge" /\ hs_suggestion.result.side = "sell"

(***************************************************************************)
(* Claims about position sizing, checked on direct FundingStrategy calls.  *)
(***************************************************************************)
\* the call recorded in fs_call is a calculate_position_size call that returned
Sized == fs_call.op = "calculate_position_size" /\ fs_call.done

\* C14: in calculate_position_size the position-size percentage finally used to
\* compute the contract count lies within [min_position_size_percent,
\* max_position_size_percent], whatever the volatility, win rate, recent_losses,
\* signal strength and existing-positions value.
C14_SizePercentWithinLimits ==
    (Sized /\ fs_call.result > 0) =>
        /\ RGeq(fs_call.percent, Rat(min_position_size_percent))
        /\ RLeq(fs_call.percent, Rat(fs_max_position_size_percent))

\* the call recorded in fs_call is a calculate_risk_score call that returned
Scored == fs_call.op = "calculate_risk_score" /\ fs_call.done
\* calculate_risk_score on the recorded arguments with recent_losses replaced
ScoreWithLosses(losses) ==
    CalculateRiskScore(fs_call.volatility, fs_call.win_rate, losses, fs_call.signal_strength)

\* C15: calculate_risk_score returns a value in [0, 1] for every volatility >= 0,
\* win rate in [0, 100], recent_losses >= 0 and signal strength in [0, 100], and
\* with the other arguments fixed a larger recent_losses never gives a larger value.
C15_RiskScoreBoundedAndMonotone ==
    Scored =>
        /\ RGeq(fs_call.result, Zero)
        /\ RLeq(fs_call.result, Rat(1))
        /\ \A more \in FSLosses :
                more > fs_call.recent_losses => RLeq(ScoreWithLosses(more), fs_call.result)

\* the best case scores exactly 1, and one loss lowers the score
C15_Witness ==
    /\ Scored
    /\ fs_call.recent_losses = 0
    /\ fs_call.result = Rat(1)
    /\ RLt(ScoreWithLosses(1), fs_call.result)

\* the margin of the recorded call's result: result * price / leverage
SizedMargin ==
    RDiv(RMul(Rat(fs_call.result), fs_call.current_price), Rat(fs_call.leverage))
\* balance * (1 - reserve% / 100)
FundsAfterReserve(balance) ==
    RMul(balance, RSub(Rat(1), Percent(min_balance_reserve_percent)))
\* floor(funds * percent / 100 * leverage / price) of the recorded call
SizedFloor ==
    IntOf(RDiv(RMul(RMul(FundsAfterReserve(fs_call.available_balance),
                         RDiv(fs_call.percent, Rat(100))),
                    Rat(fs_call.leverage)),
               fs_call.current_price))

\* C17: whenever calculate_position_size returns n >= 1 contracts, the margin
\* n * price / leverage is at most balance * (1 - reserve% / 100), also when the
\* floor of the computed size is 0 and the result is forced up to 1 contract.
C17_MarginWithinAvailableFunds ==
    (Sized /\ fs_call.result >= 1) =>
        RLeq(SizedMargin, FundsAfterReserve(fs_call.available_balance))

\* a result forced up from 0 to 1 contract whose margin is all the available funds
C17_Witness ==
    /\ Sized
    /\ fs_call.result = 1
    /\ SizedFloor = 0
    /\ SizedMargin = FundsAfterReserve(fs_call.available_balance)

\* the call recorded in fs_call is a should_allow_trade call that returned with
\* 3 <= recent_losses < 5
GatedAfterLosses ==
    /\ fs_call.op = "should_allow_trade" /\ fs_call.done
    /\ fs_call.recent_losses >= 3 /\ fs_call.recent_losses < 5
\* available_funds * min_position_size_percent / 100 of the recorded call
MinTierValue ==
    RMul(FundsAfterReserve(fs_call.available_balance), Percent(min_position_size_percent))

\* C18: with 3 <= recent_losses < 5, should_allow_trade allows no trade whose
\* position value exceeds available_funds * min_position_size_percent / 100, and
\* allows a trade at or below that value when the available funds are positive.
C18_MinTierCapAfterLosses ==
    GatedAfterLosses =>
        /\ RGt(fs_call.position_value, MinTierValue) => ~fs_call.result.allow
        /\ (/\ RLeq(fs_call.position_value, MinTierValue)
            /\ RGt(FundsAfterReserve(fs_call.available_balance), Zero))
                => fs_call.result.allow

\* a trade exactly at the cap is allowed after 3 losses
C18_Witness ==
    /\ GatedAfterLosses
    /\ fs_call.recent_losses = 3
    /\ RGt(fs_call.position_value, Zero)
    /\ fs_call.position_value = MinTierValue
    /\ fs_call.result.allow

(***************************************************************************)
(* Claims about sizing inside the trading cycle (SpecBot).                 *)
(***************************************************************************)
\* the step sized an open
OpenSized == bot_event.action = "open" /\ bot_event.price # NoPrice
OpenZeroSize == bot_event.action = "open" /\ bot_event.outcome = "zero_size"

BestAllocated == mp_call.op = "allocate" /\ mp_strategy = "best"

C20_BestFallsBackToEqual ==
    (BestAllocated /\ \A p \in Pairs : ~HasHistory(pair_states[p])) =>
        \A p \in Pairs : Get(pair_balances, p, Zero) = RDiv(mp_total, Rat(NumPairs))

(***************************************************************************)
(* Ranking of pairs.                                                       *)
(***************************************************************************)
BestAsked == mp_call.op = "get_best_pair"

\* the pairs with at least one recorded trade
Ranked == {p \in Pairs : pair_states[p].total_trades >= 1}

\* 0.6 * winRate + 0.4 * min(1, totalTrades / 20)
WeightedScore(p) ==
    LET wins == pair_states[p].winning_trades
        trades == pair_states[p].total_trades
    IN  RAdd(RMul(<<3, 5>>, Norm(wins, trades)),
             RMul(<<2, 5>>, IF trades >= 20 THEN Rat(1) ELSE Norm(trades, 20)))

DemoHistory ==
    /\ pair_states[1] = PairStateOf(<<8, 2>>)
    /\ pair_states[2] = PairStateOf(<<9, 1>>)
    /\ pair_states[3] = PairStateOf(<<5, 5>>)

\* C21: get_best_pair returns None exactly when no pair has a recorded trade;
\* otherwise it returns a pair with history whose composite score
\* 0.6 * winRate + 0.4 * min(1, totalTrades / 20) is the highest among the
\* pairs with history, the first such pair in configured order; with the
\* histories 8W/2L, 9W/1L, 5W/5L and no better fourth pair it returns the second
C21_BestPairHasHighestScore ==
    BestAsked =>
        /\ (mp_call.symbol = NoPair) <=> (Ranked = {})
        /\ Ranked # {} =>
               /\ mp_call.symbol \in Ranked
               /\ \A q \in Ranked :
                      /\ RGeq(WeightedScore(mp_call.symbol), WeightedScore(q))
                      /\ WeightedScore(q) = WeightedScore(mp_call.symbol)
                             => mp_call.symbol <= q
        /\ (DemoHistory /\ \A q \in Pairs : q > 3 => ~RGt(WeightedScore(q), WeightedScore(2)))
               => mp_call.symbol = 2

\* a tie between the first pair and a later one, above a third pair with history
C21_Witness ==
    /\ BestAsked
    /\ mp_call.symbol = 1
    /\ pair_states[1] = PairStateOf(<<9, 1>>)
    /\ \E q \in Ranked : q > 1 /\ WeightedScore(q) = WeightedScore(1)
    /\ \E q \in Ranked : RLt(WeightedScore(q), WeightedScore(1))

\* allocate_balance was the last call, under 'equal' or a name it does not know
EqualAllocated == mp_call.op = "allocate" /\ mp_strategy \in {"equal", "other"}

\* C22: right after allocate_balance(B, 'equal'), and after allocate_balance with
\* an unknown strategy name, every configured pair holds exactly B / |S|, whatever
\* the recorded history; 300 over three pairs is 100 each
C22_EqualSplit ==
    EqualAllocated =>
        /\ Keys(pair_balances) = Pairs
        /\ \A p \in Pairs :
               RMul(Get(pair_balances, p, Zero), Rat(NumPairs)) = mp_total
        /\ (NumPairs = 3 /\ mp_total = Rat(300))
               => \A p \in Pairs : Get(pair_balances, p, Zero) = Rat(100)

\* an unknown strategy name on a manager whose pairs have different histories
C22_Witness ==
    /\ EqualAllocated
    /\ mp_strategy = "other"
    /\ mp_total = Rat(300)
    /\ pair_states[1].winning_trades > pair_states[2].winning_trades
    /\ pair_states[2].total_trades > 0
    /\ \A p \in Pairs : RGt(Get(pair_balances, p, Zero), Zero)

(***************************************************************************)
(* Dynamic leverage.                                                       *)
(***************************************************************************)
BaseInRange ==
    /\ dl_config.min_leverage <= dl_config.base_leverage
    /\ dl_config.base_leverage <= dl_config.max_leverage

LeverageRange == dl_config.min_leverage .. dl_config.max_leverage

\* C23: for a DynamicLeverage whose base leverage lies in [min_leverage,
\* max_leverage], current_leverage is an integer of that range after every
\* sequence of adjust_leverage and reset_to_base calls, every adjust_leverage
\* call returns a value of the range, and get_current_leverage returns
\* current_leverage, which is the value adjust_leverage last returned when no
\* reset_to_base came after it
C23_LeverageWithinRange ==
    BaseInRange =>
        /\ current_leverage \in LeverageRange
        /\ dl_call.op = "adjust_leverage" =>
               dl_call.ret \in LeverageRange /\ current_leverage = dl_call.ret
        /\ dl_call.op = "get_current_leverage" =>
               /\ dl_call.ret = current_leverage
               /\ dl_call.last # 0 => dl_call.ret = dl_call.last

\* get_current_leverage after an adjustment that the lower bound had to clamp
C23_Witness ==
    /\ BaseInRange
    /\ dl_call.op = "get_current_leverage"
    /\ dl_call.last = dl_config.min_leverage
    /\ dl_config.min_leverage > 1
    /\ dl_call.last < dl_config.base_leverage

(***************************************************************************)
(* Failed redistribution.                                                  *)
(***************************************************************************)
\* no allocation differs between the table before the last call and the table now
AllocationsUnchanged ==
    \A p \in Symbols : Get(pair_balances, p, Zero) = Get(mp_call.pre, p, Zero)

\* the recipient of the last call held less than 10% of the table's total
BelowTarget ==
    RLt(Get(mp_call.pre, mp_call.symbol, Zero), RMul(SumValues(mp_call.pre), Tenth))

\* should_trade_pair ran the boost routine
BoostRan == mp_call.op = "should_trade" /\ mp_call.boosted

\* what the boost routine returned to should_trade_pair
BoostReturn == BoostAllocationForSignal(mp_call.pre, mp_call.symbol).ret

C25_NextPairStillEvaluated ==
    [][(bot_pc > 0 /\ bot_pc < Len(BotSymbols)) => bot_pc' = bot_pc + 1]_vars

(***************************************************************************)
(* The multi-pair cycle.                                                   *)
(***************************************************************************)
\* the pass of the loop that follows is for a pair the account holds a position on
HoldingPairNext == bot_pc > 0 /\ pair_position[trading_pairs[bot_pc]].currentQty # 0

\* C26: in every pass of the loop for a pair with market data suggest_action is
\* consulted; in particular a pair holding a position has its exit conditions
\* evaluated in that pass whatever the strength of its signal is
C26_HeldPairAlwaysEvaluated ==
    [][(HoldingPairNext /\ bot_event'.action # "skip")
          => bot_event'.action # "not_traded"]_vars

NoPositions == \A i \in DOMAIN BotSymbols : exchange_position[i] = Flat

\* C29: with the funding strategy enabled, from a state with recent_losses >= 5
\* and no position on any instrument every step of run_cycle places no open (an
\* open it decides on is blocked or sized to nothing), decides on no close or
\* hedge, and leaves recent_losses and the empty account as they are
C29_BreakerAbsorbing ==
    [][(BotStep /\ recent_losses >= 5 /\ NoPositions) =>
            /\ recent_losses' = recent_losses
            /\ NoPositions'
            /\ bot_event'.action \notin {"close", "hedge"}
            /\ bot_event'.outcome # "placed"
            /\ bot_event'.action = "open" =>
                    bot_event'.outcome \in {"blocked", "zero_size"}]_vars

\* a cycle has ended with an open on the last pair blocked at 5 or more losses
\* while the account holds nothing
C29_Witness ==
    /\ recent_losses >= 5
    /\ NoPositions
    /\ OpenBlocked
    /\ bot_pc = 0

(***************************************************************************)
(* The leverage of an order.                                               *)
(***************************************************************************)
\* C30: an open order is placed at the leverage its size was computed with and
\* should_allow_trade was evaluated with, i.e. at self.strategy.leverage as it
\* was when the pass began: the adjustment comes before the sizing
C30_OrderAtSizingLeverage ==
    [][(BotStep /\ OpenPlaced') => strategy_leverage' = strategy_leverage]_vars

(***************************************************************************)
(* Redistribution within a cycle.                                          *)
(***************************************************************************)
\* the pass before this one sized and placed an open on the pair before this one
PreviousPairOpened == bot_pc > 1 /\ OpenPlaced

\* C31: a pass of the loop never lowers the allocation of a pair whose allocation
\* an earlier pass of the same cycle used to size and open a trade; here the
\* pair of the pass just before
C31_NoBoostFromConsumedDonor ==
    [][PreviousPairOpened =>
          RGeq(Get(pair_balances', trading_pairs[bot_pc - 1], Zero),
               Get(pair_balances, trading_pairs[bot_pc - 1], Zero))]_vars

(***************************************************************************)
(* The water marks of the one strategy instance.                           *)
(***************************************************************************)
\* the step is a pass of the loop that reached suggest_action
PassDecided ==
    /\ bot_pc > 0
    /\ BotStep
    /\ bot_event'.action \notin {"skip", "not_traded"}

\* C32: in multi-pair mode every pass reads and writes the one pair of water
\* marks, whichever pair it is for: an executed open or close of any pair clears
\* both, an evaluation that holds never lowers the highest price the pass before
\* left, and a pass decides otherwise than an instance of the pair's own would
\* only when the shared marks differ from that instance's
C32_OneMarkPairForAllPairs ==
    [][PassDecided =>
        /\ (OpenPlaced' \/ ClosePlaced') =>
                highest_price_long' = NoPrice /\ lowest_price_short' = NoPrice
        /\ (bot_event'.action \in {"hold", "hedge"} /\ highest_price_long # NoPrice) =>
                /\ highest_price_long' # NoPrice
                /\ RGeq(highest_price_long', highest_price_long)
        /\ bot_event'.action # own_action' =>
                \/ highest_price_long # own_high[trading_pairs[bot_pc]]
                \/ lowest_price_short # own_low[trading_pairs[bot_pc]]]_vars

\* a long is closed on the trailing stop although an instance of its own would
\* hold it, while another pair holds a long whose evaluation set the mark
C32_Witness ==
    /\ ClosePlaced
    /\ own_action = "hold"
    /\ \E p \in Pairs : pair_position[p].currentQty > 0 /\ own_high[p] # NoPrice

(***************************************************************************)
(* The trade statistics.                                                   *)
(***************************************************************************)
\* completed trades as the bot counts them
CountedTrades == winning_trades + losing_trades

\* C33: winning_trades + losing_trades changes only in a step that executes a
\* close, and such a step adds exactly 1 to one of the two counters
C33_CountersFollowCloses ==
    [][/\ CountedTrades' # CountedTrades => BotStep /\ ClosePlaced'
       /\ (BotStep /\ ClosePlaced') => CountedTrades' = CountedTrades + 1]_vars

(***************************************************************************)
(* The gate should_trade_pair.                                             *)
(***************************************************************************)
\* the last call was should_trade_pair
GateAsked == mp_call.op = "should_trade"

\* C34: should_trade_pair returns False and leaves the table alone for a signal
\* below 60 or an unknown symbol; it runs boost_allocation_for_signal only for a
\* configured pair with strength >= 60 and an allocation <= 1; and when it returns
\* True the pair's allocation is > 1
C34_GateOfShouldTradePair ==
    GateAsked =>
        /\ (mp_call.symbol \notin Pairs \/ mp_call.strength < 60) =>
                /\ mp_call.ret = FALSE
                /\ ~mp_call.boosted
                /\ pair_balances = mp_call.pre
        /\ mp_call.boosted =>
                /\ mp_call.symbol \in Pairs
                /\ mp_call.strength >= 60
                /\ RLeq(Get(mp_call.pre, mp_call.symbol, Zero), Rat(1))
        /\ ~mp_call.boosted => pair_balances = mp_call.pre
        /\ mp_call.ret = TRUE => RGt(Get(pair_balances, mp_call.symbol, Zero), Rat(1))

\* a strong signal on a pair allocated nothing: the boost moved balance to it and
\* the gate opened
C34_Witness ==
    /\ GateAsked
    /\ mp_call.boosted
    /\ mp_call.ret = TRUE
    /\ Get(mp_call.pre, mp_call.symbol, Zero) = Zero
    /\ pair_balances # mp_call.pre

\* what one boost call took from a donor, and the most the loop can take from it
BoostTaken(p) == RSub(Get(mp_call.pre, p, Zero), Get(pair_balances, p, Zero))
DonorCapacity(p) ==
    LET before == Get(mp_call.pre, p, Zero)
    IN  RMin(RMax(Zero, RSub(before, RMul(SumValues(mp_call.pre), Tenth))),
             RMul(before, Fifth))
\* after a boost call that had to move capital: the recipient holds no more than
\* the 10% target, and a donor that gave anything follows only larger donors that
\* gave all they could without covering the needed amount
BoostBelowTargetAndInOrder ==
    LET total == SumValues(mp_call.pre)
        target == RMul(total, Tenth)
        current == Get(mp_call.pre, mp_call.symbol, Zero)
        needed == RSub(target, current)
        donors == Donors(mp_call.pre, mp_call.symbol)
    IN  /\ RLeq(Get(pair_balances, mp_call.symbol, Zero), target)
        /\ \A q \in donors :
              RGt(BoostTaken(q), Zero) =>
                  LET larger == {p \in donors : RGt(Get(mp_call.pre, p, Zero),
                                                    Get(mp_call.pre, q, Zero))}
                  IN  /\ \A p \in larger : BoostTaken(p) = DonorCapacity(p)
                      /\ \A p \in larger : RLt(BoostTaken(p), needed)
                      /\ \A p1, p2 \in larger :
                            p1 # p2 => RLt(RAdd(BoostTaken(p1), BoostTaken(p2)), needed)

\* C35: boost_allocation_for_signal is a no-op returning True when the recipient
\* already holds at least 10% of the table total; otherwise the recipient's
\* allocation after the call never exceeds the 10% target and donors are drawn in
\* descending order of allocation, a smaller donor being touched only while the
\* needed amount is not yet covered.
C35_BoostTargetAndOrder ==
    LastBoostCall =>
        LET target == RMul(SumValues(mp_call.pre), Tenth)
            current == Get(mp_call.pre, mp_call.symbol, Zero)
        IN  IF RGeq(current, target)
            THEN mp_call.ret = TRUE /\ pair_balances = mp_call.pre
            ELSE BoostBelowTargetAndInOrder

\* C35 as the code has it: on a table whose total is positive the call is a no-op
\* returning True when the recipient holds at least 10% of the total, and
\* otherwise keeps the recipient at or below the target and draws donors in
\* descending order; on a table whose total is not positive it is a no-op
\* returning False.
C35_BoostTargetAndOrderFunded ==
    LastBoostCall =>
        LET total == SumValues(mp_call.pre)
            target == RMul(total, Tenth)
            current == Get(mp_call.pre, mp_call.symbol, Zero)
        IN  IF RLeq(total, Zero)
            THEN mp_call.ret = FALSE /\ pair_balances = mp_call.pre
            ELSE IF RGeq(current, target)
            THEN mp_call.ret = TRUE /\ pair_balances = mp_call.pre
            ELSE BoostBelowTargetAndInOrder

\* a boost call in which the largest donor gave all it could and a smaller donor
\* gave the rest, the recipient ending exactly at the target
C35_Witness ==
    /\ LastBoostCall /\ mp_call.ret = TRUE
    /\ Get(pair_balances, mp_call.symbol, Zero) = RMul(SumValues(mp_call.pre), Tenth)
    /\ \E p, q \in Donors(mp_call.pre, mp_call.symbol) :
          /\ RGt(Get(mp_call.pre, p, Zero), Get(mp_call.pre, q, Zero))
          /\ RGt(BoostTaken(q), Zero)
          /\ BoostTaken(p) = DonorCapacity(p)

\* C36: with available_balance > 1 the tag suggest_action returns follows the
\* position: no position gives only 'open' or 'wait'; a long or a short gives
\* only 'close', 'hedge' or 'hold'; a close sells a long and buys a short with
\* confidence 100; a hold has confidence 50; 'open' is never returned while a
\* position exists.
C36_TagFollowsPosition ==
    (Suggested /\ RGt(hs_suggestion.available_balance, Rat(1))) =>
        LET qty == hs_suggestion.current_position.currentQty
            result == hs_suggestion.result
        IN  /\ qty = 0 => result.action \in {"open", "wait"}
            /\ qty # 0 => result.action \in {"close", "hedge", "hold"}
            /\ result.action = "close" =>
                  /\ result.side = (IF qty > 0 THEN "sell" ELSE "buy")
                  /\ result.confidence = 100
            /\ result.action = "hold" => result.confidence = 50
            /\ result.action = "open" => qty = 0

\* a short closed by a buy with confidence 100 on a strong sell signal
C36_Witness ==
    /\ Suggested /\ RGt(hs_suggestion.available_balance, Rat(1))
    /\ hs_suggestion.current_position.currentQty < 0
    /\ hs_suggestion.signal.action = "sell" /\ hs_suggestion.signal.strength >= 60
    /\ hs_suggestion.result.action = "close" /\ hs_suggestion.result.side = "buy"
    /\ hs_suggestion.result.confidence = 100

(***************************************************************************)
(* Claims about the threads of the bot.                                    *)
(***************************************************************************)
\* C37: at most one execution of boost_allocation_for_signal is in progress at
\* any time, and while one is in progress the allocation table is changed only
\* by the thread executing it, in the steps of that execution.
C37_RedistributionSerialized ==
    [][/\ BoostsInProgress' <= 1
       /\ (BoostsInProgress >= 1 /\ pair_balances' # pair_balances) =>
              /\ th_frame[th_step'.thread] # NoFrame
              /\ th_step'.op \in {"boost_iterate", "boost_return"}]_vars

\* the dashboard served a request between two iterations of a boost, when one
\* donor had paid and the recipient had not been credited
C37_Witness ==
    /\ th_frame["main"] # NoFrame
    /\ th_frame["main"].pc = "loop"
    /\ RGt(th_frame["main"].redistributed, Zero)
    /\ SumValues(pair_balances) # th_frame["main"].total_allocated
    /\ th_step.thread = "dashboard"

\* C38: once stop() has set running to False, run_cycle evaluates no further
\* pair in the current cycle and run() starts no new cycle.
C38_NoEvaluationAfterStop ==
    [][~running => th_step'.op \notin {"pass", "start_cycle"}]_vars

\* C39: within one cycle no pair is evaluated more than once and no more than
\* one order placement is attempted for it, so a rejected, blocked or failed
\* trade is not tried again before the next cycle; execute_trade with size <= 0
\* or with a side other than buy and sell returns False without placing an
\* order, and an execute_trade whose order fails does not place a second one.
C39_NothingRetried ==
    /\ \A i \in 1..Len(BotSymbols) :
          /\ evaluations[i] <= 1
          /\ orders_attempted[i] <= evaluations[i]
    /\ et_call.op = "execute_trade" =>
          /\ (et_call.size <= 0 \/ et_call.side \notin {"buy", "sell"}) =>
                 (et_call.ret = FALSE /\ et_call.placed = 0)
          /\ et_call.placed <= 1
          /\ ~et_call.order_ok => et_call.ret = FALSE

\* a cycle that evaluated both pairs once and whose order on the last pair
\* failed, followed by execute_trade with a side that is neither buy nor sell
C39_Witness ==
    /\ bot_pc = 0
    /\ \A i \in 1..Len(BotSymbols) : evaluations[i] = 1
    /\ bot_event.outcome = "failed"
    /\ orders_attempted[Len(BotSymbols)] = 1
    /\ et_call.op = "execute_trade" /\ et_call.size = 5 /\ et_call.side = "long"
    /\ et_call.ret = FALSE /\ et_call.placed = 0
====
